---- MODULE Spec2Model ----
(***************************************************************************)
(* A model of the article-extraction engine of aeconomia                   *)
(* (src/app/extractor.py).  Text is modelled as a sequence of              *)
(* one-character strings, so that parsing, lower-casing, joining and       *)
(* comparing URLs are computed and not assumed.                            *)
(***************************************************************************)
EXTENDS Integers, Sequences, FiniteSets, TLC

VARIABLES
    ai,         \* the AIProcessor: its keys, current_key_index, and the place and trace of the call of rewrite_content
    pool,       \* the KeyPool: its key list, the place of its cycle, the status of each key, the clock and the last call
    feeds,      \* pipeline: the items each feed lists (what read_feeds returns)
    seen_articles, \* pipeline: table seen_articles, the committed rows in the order of their ids
    posts,      \* pipeline: table posts
    wp_created, \* pipeline: the posts created on the WordPress site
    failures,   \* pipeline: table feed_status, consecutive_failures of each feed
    turns,      \* pipeline: how the last turn of each feed ended
    txn,        \* pipeline: the open write transaction of the database, its owner and its rows
    procs,      \* pipeline: the processes that run cycles, each with the locals of run_pipeline_cycle
    wp,         \* WordPressClient.upload_media_from_url: the call in progress (attempt, requests made, errors, result)
    located,    \* _find_article_body: "pending", the root it returned, or that it raised
    soup_pass,  \* tree passes (html_utils, _remove_forbidden_blocks): the pass that is applied
    soup_in,    \* tree passes (html_utils, _remove_forbidden_blocks): the contents of <body> as parsed from the input
    soup_out,   \* tree passes (html_utils, _remove_forbidden_blocks): "pending" or the contents of <body> that are returned
    san_pass,   \* html_utils text passes: the pass that is applied
    san_texts,  \* html_utils text passes: the input and the outputs of the applications so far
    trees,      \* collect_images_from_article, called repeatedly: the trees the caller holds
    call_urls,  \* collect_images_from_article, called repeatedly: the list urls of the last call
    calls,      \* collect_images_from_article, called repeatedly: the calls made and what they returned
    img,        \* is_valid_article_image: the parts the input URL is built from
    url,        \* is_valid_article_image: the input URL
    valid,      \* is_valid_article_image: "pending" or the returned boolean
    body,       \* collect_images_from_article: the input tree and base URL
    collected,  \* collect_images_from_article: "pending" or the returned list
    doc,        \* ContentExtractor.extract: the input (html, url)
    pc,         \* ContentExtractor.extract: position in the call
    meta,       \* ContentExtractor.extract: step 1's locals (full-page metadata)
    container,  \* ContentExtractor.extract: cleaned_container
    site_tries, \* ContentExtractor.extract: site-specific cleaners run so far
    result      \* ContentExtractor.extract: the returned value

vars == <<ai,
         pool,
         feeds, seen_articles, posts, wp_created, failures, turns, txn, procs,
         wp,
         located,
         soup_pass, soup_in, soup_out,
         san_pass, san_texts,
         trees, call_urls, calls,
         img, url, valid, body, collected, doc, pc, meta, container, site_tries, result>>

(***************************************************************************)
(* Text                                                                    *)
(***************************************************************************)

\* The printable ASCII characters in code-point order (32..126); "grave" holds
\* the place of the grave accent (96), which no modelled text contains.
Ascii == <<" ","!","\"","#","$","%","&","'","(",")","*","+",",","-",".","/","0","1","2","3","4","5","6","7","8","9",":",";","<","=",">","?","@","A","B","C","D","E","F","G","H","I","J","K","L","M","N","O","P","Q","R","S","T","U","V","W","X","Y","Z","[","\\","]","^","_","grave","a","b","c","d","e","f","g","h","i","j","k","l","m","n","o","p","q","r","s","t","u","v","w","x","y","z","{","|","}","~">>

\* ord(c) for a character of Ascii
Ord(c) == (CHOOSE i \in DOMAIN Ascii : Ascii[i] = c) + 31

DIGITS == <<"0","1","2","3","4","5","6","7","8","9">>

UPPERCASE == <<"A","B","C","D","E","F","G","H","I","J","K","L","M","N","O","P","Q","R","S","T","U","V","W","X","Y","Z">>

LOWERCASE == <<"a","b","c","d","e","f","g","h","i","j","k","l","m","n","o","p","q","r","s","t","u","v","w","x","y","z">>

\* the characters of the text s
Chars(s) == {s[i] : i \in 1..Len(s)}

IsDigit(c) == c \in Chars(DIGITS)

IsUpper(c) == c \in Chars(UPPERCASE)

IsLowerCh(c) == c \in Chars(LOWERCASE)

IsAlpha(c) == IsUpper(c) \/ IsLowerCh(c)

\* str.lower() on one character
LowerCh(c) ==
    IF IsUpper(c) THEN LOWERCASE[CHOOSE i \in 1..Len(UPPERCASE) : UPPERCASE[i] = c] ELSE c

\* str.lower()
Lower(s) == [i \in 1..Len(s) |-> LowerCh(s[i])]

\* s[i:] (1-based i)
From(s, i) == SubSeq(s, i, Len(s))

\* s.startswith(p)
StartsWith(s, p) == Len(p) <= Len(s) /\ SubSeq(s, 1, Len(p)) = p

\* s.endswith(p)
EndsWith(s, p) == Len(p) <= Len(s) /\ SubSeq(s, Len(s) - Len(p) + 1, Len(s)) = p

\* the positions at which k occurs in s
Occurrences(s, k) == {i \in 1..(Len(s) - Len(k) + 1) : SubSeq(s, i, i + Len(k) - 1) = k}

\* k in s
Contains(s, k) == Occurrences(s, k) # {}

Min(S) == CHOOSE x \in S : \A y \in S : x <= y

Max(S) == CHOOSE x \in S : \A y \in S : x >= y

\* F applied to the value of x, which is computed once
Bind(x, F(_)) == CHOOSE r \in {F(v) : v \in {x}} : TRUE

\* s.find(k) + 1: the first position of k in s, 0 when absent
Find(s, k) == Bind(Occurrences(s, k), LAMBDA o : IF o # {} THEN Min(o) ELSE 0)

\* s.rfind(k) + 1
RFind(s, k) == Bind(Occurrences(s, k), LAMBDA o : IF o # {} THEN Max(o) ELSE 0)

\* s.split(sep, 1)[0] and the rest after the first sep ("" when sep is absent)
Before(s, sep) == Bind(Find(s, sep), LAMBDA i : IF i > 0 THEN SubSeq(s, 1, i - 1) ELSE s)

After(s, sep) ==
    Bind(Find(s, sep), LAMBDA i : IF i > 0 THEN From(s, i + Len(sep)) ELSE <<>>)

\* s.split(sep)
RECURSIVE Split(_, _)
Split(s, sep) ==
    Bind(Find(s, sep), LAMBDA i :
        IF i = 0 THEN <<s>>
        ELSE Bind(From(s, i + Len(sep)), LAMBDA rest :
                <<SubSeq(s, 1, i - 1)>> \o Split(rest, sep)))

\* s.strip() for the whitespace the inputs contain (spaces)
LStrip(s) ==
    LET kept == {i \in 1..Len(s) : s[i] # " "}
    IN  IF kept = {} THEN <<>> ELSE From(s, Min(kept))

RStrip(s) ==
    LET kept == {i \in 1..Len(s) : s[i] # " "}
    IN  IF kept = {} THEN <<>> ELSE SubSeq(s, 1, Max(kept))

Strip(s) == Bind(RStrip(s), LAMBDA r : LStrip(r))

\* \s for the characters the texts contain
IsSpace(c) == c \in {" ", "\n", "\t"}

\* \s* from position i: the position after the longest run of whitespace
SkipSpace(s, i) == Min({j \in i..(Len(s) + 1) : j = Len(s) + 1 \/ ~IsSpace(s[j])})

\* s.rstrip("/")
RStripSlash(s) ==
    LET kept == {i \in 1..Len(s) : s[i] # "/"}
    IN  IF kept = {} THEN <<>> ELSE SubSeq(s, 1, Max(kept))

\* str < str: lexicographic by code point
RECURSIVE StrLess(_, _)
StrLess(a, b) ==
    IF b = <<>> THEN FALSE
    ELSE IF a = <<>> THEN TRUE
    ELSE IF a[1] # b[1] THEN Ord(a[1]) < Ord(b[1])
    ELSE StrLess(Tail(a), Tail(b))

AllDigits(s) == s # <<>> /\ \A i \in 1..Len(s) : IsDigit(s[i])

\* int(s) for a string of decimal digits
DigitsValue(s) ==
    LET RECURSIVE Go(_)
        Go(n) == IF n = 0 THEN 0 ELSE 10 * Go(n - 1) + (Ord(s[n]) - Ord("0"))
    IN  Go(Len(s))

\* str(n) for n >= 0
RECURSIVE Decimal(_)
Decimal(n) ==
    IF n < 10 THEN <<DIGITS[n + 1]>>
    ELSE Decimal(n \div 10) \o <<DIGITS[(n % 10) + 1]>>

\* The value None where a text is expected: a sequence no text equals.
None == <<"None">>

\* not s, for s a text or None
Falsy(s) == s = None \/ s = <<>>

\* a Python bool as a value that can share a variable with "pending"
PyBool(b) == IF b THEN "True" ELSE "False"

(***************************************************************************)
(* urllib.parse, for URLs without ';' parameters, userinfo, IPv6 literals, *)
(* percent-escapes and dot segments                                        *)
(***************************************************************************)

IsSchemeChar(c) == IsAlpha(c) \/ IsDigit(c) \/ c \in {"+", "-", "."}

\* urlsplit: the length of "scheme:" at the head of u, 0 when u has no scheme
SchemeLen(u) ==
    Bind(Find(u, <<":">>), LAMBDA i :
        IF i > 1 /\ IsAlpha(u[1]) /\ \A j \in 1..(i - 1) : IsSchemeChar(u[j])
        THEN i ELSE 0)

url_scheme(u) ==
    Bind(SchemeLen(u), LAMBDA n : IF n = 0 THEN <<>> ELSE Lower(SubSeq(u, 1, n - 1)))

AfterScheme(u) == From(u, SchemeLen(u) + 1)

\* _splitnetloc: the netloc ends at the first of "/", "?", "#"
NetlocEnd(r) ==
    Bind({i \in 3..Len(r) : r[i] \in {"/", "?", "#"}}, LAMBDA stops :
        IF stops = {} THEN Len(r) ELSE Min(stops) - 1)

url_netloc(u) ==
    Bind(AfterScheme(u), LAMBDA r :
        IF StartsWith(r, <<"/","/">>) THEN SubSeq(r, 3, NetlocEnd(r)) ELSE <<>>)

AfterNetloc(u) ==
    Bind(AfterScheme(u), LAMBDA r :
        IF StartsWith(r, <<"/","/">>) THEN From(r, NetlocEnd(r) + 1) ELSE r)

\* the URL without its fragment
BeforeFragment(u) == Before(AfterNetloc(u), <<"#">>)

url_path(u) == Before(BeforeFragment(u), <<"?">>)

url_query(u) == After(BeforeFragment(u), <<"?">>)

\* SplitResult.hostname: the netloc without its port, lower-cased ("" for None)
url_hostname(u) == Lower(Before(url_netloc(u), <<":">>))

\* the elements of seq s at the indices that satisfy keep, in order
SelectAt(s, keep(_)) ==
    LET RECURSIVE Go(_)
        Go(i) == IF i > Len(s) THEN <<>>
                 ELSE (IF keep(i) THEN <<s[i]>> ELSE <<>>) \o Go(i + 1)
    IN  Go(1)

\* parse_qs(query).get(key): the non-blank values of key, in order
parse_qs_get(query, key) ==
    Bind(Split(query, <<"&">>), LAMBDA pairs :
    Bind(SelectAt(pairs, LAMBDA j : /\ Contains(pairs[j], <<"=">>)
                                   /\ Before(pairs[j], <<"=">>) = key
                                   /\ After(pairs[j], <<"=">>) # <<>>), LAMBDA hits :
        [i \in 1..Len(hits) |-> After(hits[i], <<"=">>)]))

\* urljoin(base, u)
urljoin(base, u) ==
    IF u = <<>> THEN base
    ELSE IF SchemeLen(u) > 0 THEN u
    ELSE IF StartsWith(u, <<"/","/">>) THEN url_scheme(base) \o <<":">> \o u
    ELSE Bind(url_scheme(base) \o <<":","/","/">> \o url_netloc(base), LAMBDA origin :
            IF u[1] = "/" THEN origin \o u
            ELSE Bind(url_path(base), LAMBDA bp :
                    origin \o SubSeq(bp, 1, RFind(bp, <<"/">>)) \o u))

\* A URL with a scheme and a host.
IsAbsolute(u) == SchemeLen(u) > 0 /\ url_netloc(u) # <<>>

(***************************************************************************)
(* Image validation (src/app/extractor.py, lines 68-210)                   *)
(***************************************************************************)

BAD_IMAGE_KEYWORDS == {
    <<"a","u","t","h","o","r">>, <<"a","u","t","o","r">>, <<"a","v","a","t","a","r">>, <<"b","y","l","i","n","e">>, <<"p","e","r","f","i","l">>, <<"p","r","o","f","i","l","e">>,
    <<"p","l","a","c","e","h","o","l","d","e","r">>, <<"l","o","g","o">>, <<"l","o","g","o","m","a","r","c","a">>, <<"b","r","a","n","d">>, <<"m","a","r","c","a">>,
    <<"i","c","o","n">>, <<"f","a","v","i","c","o","n">>, <<"s","p","r","i","t","e">>, <<"c","o","m","m","e","n","t">>, <<"u","s","e","r">>, <<"u","s","u","a","r","i","o">>, <<"u","s","u","á","r","i","o">>}

BAD_IMAGE_DOMAINS == {
    <<"g","r","a","v","a","t","a","r",".","c","o","m">>, <<"t","w","i","m","g",".","c","o","m">>, <<"f","a","c","e","b","o","o","k",".","c","o","m">>, <<"f","b","c","d","n",".","n","e","t">>,
    <<"g","s","t","a","t","i","c",".","c","o","m">>, <<"g","o","o","g","l","e","u","s","e","r","c","o","n","t","e","n","t",".","c","o","m">>,
    <<"s","c","h","e","m","a",".","o","r","g">>, <<"s","c","o","r","e","c","a","r","d","r","e","s","e","a","r","c","h",".","c","o","m">>, <<"d","o","u","b","l","e","c","l","i","c","k",".","n","e","t">>,
    <<"q","u","a","n","t","s","e","r","v","e",".","c","o","m">>, <<"c","h","a","r","t","b","e","a","t",".","c","o","m">>, <<"g","o","o","g","l","e","-","a","n","a","l","y","t","i","c","s",".","c","o","m">>}

JUNK_IMAGE_PATTERNS == {
    <<"p","l","a","c","e","h","o","l","d","e","r">>, <<"s","p","r","i","t","e">>, <<"i","c","o","n">>, <<"e","m","o","j","i">>, <<".","s","v","g">>,
    <<"c","t","a">>, <<"r","e","a","d","-","m","o","r","e">>, <<"s","h","a","r","e">>, <<"l","o","g","o">>, <<"b","a","n","n","e","r">>}

PRIORITY_CDN_DOMAINS == {
    <<"s","t","a","t","i","c","1",".","s","r","c","d","n",".","c","o","m">>, <<"s","t","a","t","i","c","1",".","c","o","l","l","i","d","e","r","i","m","a","g","e","s",".","c","o","m">>, <<"s","t","a","t","i","c","1",".","c","b","r","i","m","a","g","e","s",".","c","o","m">>,
    <<"s","t","a","t","i","c","1",".","m","o","v","i","e","w","e","b","i","m","a","g","e","s",".","c","o","m">>,
    <<"s","t","a","t","i","c","0",".","g","a","m","e","r","a","n","t","i","m","a","g","e","s",".","c","o","m">>, <<"s","t","a","t","i","c","1",".","g","a","m","e","r","a","n","t","i","m","a","g","e","s",".","c","o","m">>,
    <<"s","t","a","t","i","c","2",".","g","a","m","e","r","a","n","t","i","m","a","g","e","s",".","c","o","m">>, <<"s","t","a","t","i","c","3",".","g","a","m","e","r","a","n","t","i","m","a","g","e","s",".","c","o","m">>,
    <<"s","t","a","t","i","c","1",".","t","h","e","g","a","m","e","r","i","m","a","g","e","s",".","c","o","m">>}

\* _passes_min_size's defaults
MIN_W == 600

MIN_H == 315

\* The matches <<i, a, b>> of DIM_SUFFIX_RE in p (no newline in p):
\*   -(\d{2,5})x(\d{2,5})(?=\.[a-z]{3,4})(?:\?.*)?$   with re.IGNORECASE
\* "-" at i, a digits, "x", b digits; at the next position j the lookahead
\* wants "." and three letters, and the rest of the pattern, which starts at
\* the same j because a lookahead consumes nothing, wants the end of p or "?".
DimSuffixMatches(p) ==
    {m \in {i \in 1..Len(p) : p[i] = "-"} \X (2..5) \X (2..5) :
        LET i == m[1]
            a == m[2]
            b == m[3]
            j == i + a + b + 2
        IN  /\ j <= Len(p) + 1
            /\ p[i] = "-"
            /\ \A k \in (i + 1)..(i + a) : IsDigit(p[k])
            /\ LowerCh(p[i + a + 1]) = "x"
            /\ \A k \in (i + a + 2)..(j - 1) : IsDigit(p[k])
            /\ j + 3 <= Len(p)
            /\ p[j] = "."
            /\ \A k \in (j + 1)..(j + 3) : IsAlpha(p[k])
            /\ (j = Len(p) + 1 \/ p[j] = "?")}

\* re.search: the leftmost match, its groups taken greedily
DimSuffixSearch(p) ==
    Bind(DimSuffixMatches(p), LAMBDA ms :
    Bind(Min({m[1] : m \in ms}), LAMBDA i :
    Bind(Max({m[2] : m \in {n \in ms : n[1] = i}}), LAMBDA a :
    Bind(Max({m[3] : m \in {n \in ms : n[1] = i /\ n[2] = a}}), LAMBDA b :
        [found |-> TRUE,
         w |-> DigitsValue(SubSeq(p, i + 1, i + a)),
         h |-> DigitsValue(SubSeq(p, i + a + 2, i + a + b + 1))]))))

NoDimensions == [found |-> FALSE, w |-> 0, h |-> 0]

\* q.get(key) or q.get(short)
QueryValues(q, key, short) ==
    Bind(parse_qs_get(q, key), LAMBDA v : IF v # <<>> THEN v ELSE parse_qs_get(q, short))

\* _guess_dimensions_from_url: (w, h), or (None, None) as found = FALSE.
\* int() raises ValueError on a value that is no number, and the except
\* clause then returns (None, None) without trying the suffix.
_guess_dimensions_from_url(u) ==
    Bind(url_query(u), LAMBDA q :
    Bind(QueryValues(q, <<"w","i","d","t","h">>, <<"w">>), LAMBDA qw :
    Bind(QueryValues(q, <<"h","e","i","g","h","t">>, <<"h">>), LAMBDA qh :
        IF qw # <<>> /\ qh # <<>>
        THEN IF AllDigits(qw[1]) /\ AllDigits(qh[1])
             THEN [found |-> TRUE, w |-> DigitsValue(qw[1]), h |-> DigitsValue(qh[1])]
             ELSE NoDimensions
        ELSE Bind(url_path(u), LAMBDA p :
                IF DimSuffixMatches(p) # {} THEN DimSuffixSearch(p) ELSE NoDimensions))))

_is_bad_domain(u) ==
    Bind(url_hostname(u), LAMBDA host : \E d \in BAD_IMAGE_DOMAINS : EndsWith(host, d))

_has_bad_keyword_path_only(u) ==
    Bind(url_path(u), LAMBDA p : \E k \in BAD_IMAGE_KEYWORDS : Contains(p, k))

_has_bad_keyword(u) ==
    Bind(Lower(u), LAMBDA lu : \E k \in BAD_IMAGE_KEYWORDS : Contains(lu, k))

\* urlparse(url).path.rsplit("/", 1)[-1].lower()
FileName(u) == Bind(url_path(u), LAMBDA p : Lower(From(p, RFind(p, <<"/">>) + 1)))

_is_junk_filename(u) ==
    Bind(FileName(u), LAMBDA name : \E k \in JUNK_IMAGE_PATTERNS : Contains(name, k))

\* 0.6 <= w / h <= 2.2 (h > 0), in integers
AspectOK(w, h) == 6 * h <= 10 * w /\ 10 * w <= 22 * h

_passes_min_size(u) ==
    Bind(_guess_dimensions_from_url(u), LAMBDA d :
        IF ~d.found THEN TRUE
        ELSE IF d.w < MIN_W \/ d.h < MIN_H THEN FALSE
        ELSE AspectOK(d.w, d.h))

is_valid_article_image(u) ==
    IF u = <<>> \/ StartsWith(u, <<"d","a","t","a",":">>) THEN FALSE
    ELSE IF _is_bad_domain(u) THEN FALSE
    ELSE IF _has_bad_keyword(u) THEN FALSE
    ELSE IF _is_junk_filename(u) THEN FALSE
    ELSE IF ~_passes_min_size(u) THEN FALSE
    ELSE TRUE

(***************************************************************************)
(* Inputs of is_valid_article_image: a URL is built from its parts, so     *)
(* that a property can speak of the host, the path and the dimensions the  *)
(* URL was given and not of what the code parses out of it.                *)
(***************************************************************************)

ImageHosts == {<<"a",".","c","o">>, <<"s","e","c","u","r","e",".","g","r","a","v","a","t","a","r",".","c","o","m">>, <<"s","t","a","t","i","c","1",".","s","r","c","d","n",".","c","o","m">>}

ImageDirs == {<<"/","i","m","g","/">>, <<"/","a","u","t","h","o","r","/">>, <<"/","A","v","a","t","a","r","/">>, <<"/">>}

ImageNames == {<<"p","h","o","t","o">>, <<"f","o","t","o","-","i","c","o","n">>, <<"b","a","n","n","e","r">>}

ImageWidths == {150, 599, 600, 800, 2000}

ImageHeights == {150, 314, 315, 400, 1100}

ImageInputs ==
    {[kind |-> "empty", host |-> <<>>, dir |-> <<>>, name |-> <<>>,
      dims |-> "none", w |-> 0, h |-> 0],
     [kind |-> "data", host |-> <<>>, dir |-> <<>>, name |-> <<>>,
      dims |-> "none", w |-> 0, h |-> 0]}
    \cup [kind : {"http"}, host : ImageHosts, dir : ImageDirs, name : ImageNames,
          dims : {"none"}, w : {0}, h : {0}]
    \cup [kind : {"http"}, host : ImageHosts, dir : ImageDirs, name : ImageNames,
          dims : {"suffix", "query"}, w : ImageWidths, h : ImageHeights]

BuildURL(i) ==
    IF i.kind = "empty" THEN <<>>
    ELSE IF i.kind = "data" THEN <<"d","a","t","a",":","i","m","a","g","e","/","p","n","g",";","b","a","s","e","6","4",",","A","A","A","A">>
    ELSE <<"h","t","t","p","s",":","/","/">> \o i.host \o i.dir \o i.name
         \o (IF i.dims = "suffix" THEN <<"-">> \o Decimal(i.w) \o <<"x">> \o Decimal(i.h) ELSE <<>>)
         \o <<".","j","p","g">>
         \o (IF i.dims = "query"
             THEN <<"?","w","i","d","t","h","=">> \o Decimal(i.w) \o <<"&","h","e","i","g","h","t","=">> \o Decimal(i.h) ELSE <<>>)

\* The value of a variable that holds a record while its operation is not
\* in use.
Idle == [kind |-> "idle"]

NoImageCall == img = Idle /\ url = <<>> /\ valid = "idle"

NoCollectCall == body = Idle /\ collected = Idle

NoExtractCall ==
    /\ doc = Idle /\ pc = "idle" /\ meta = Idle /\ container = Idle
    /\ site_tries = 0 /\ result = Idle

NoRepeatCall == trees = <<>> /\ call_urls = <<>> /\ calls = <<>>

NoSanitizerCall == san_pass = "idle" /\ san_texts = <<>>

NoSoupPass == soup_pass = "idle" /\ soup_in = <<>> /\ soup_out = Idle

NoLocateCall == located = Idle

\* no call of upload_media_from_url is in progress
NoUploadCall == wp = Idle

\* no KeyPool exists
NoPoolCall == pool = Idle

\* no AIProcessor exists
NoRewriteCall == ai = Idle

\* no pipeline process exists
NoPipeline ==
    /\ feeds = <<>> /\ seen_articles = <<>> /\ posts = {} /\ wp_created = <<>>
    /\ failures = <<>> /\ turns = <<>> /\ txn = Idle /\ procs = <<>>

InitImage ==
    /\ img \in ImageInputs
    /\ url = BuildURL(img)
    /\ valid = "pending"
    /\ NoCollectCall
    /\ NoExtractCall
    /\ NoRepeatCall
    /\ NoSanitizerCall
    /\ NoSoupPass
    /\ NoLocateCall
    /\ NoUploadCall
    /\ NoPipeline
    /\ NoPoolCall
    /\ NoRewriteCall

\* a call of is_valid_article_image(url)
CheckImage ==
    /\ valid = "pending"
    /\ valid' = PyBool(is_valid_article_image(url))
    /\ UNCHANGED <<ai, pool, feeds, seen_articles, posts, wp_created, failures, turns, txn, procs, wp, located, soup_pass, soup_in, soup_out, san_pass, san_texts, trees, call_urls, calls, img, url, body, collected, doc, pc, meta, container, site_tries, result>>

NextImage == CheckImage

SpecImage == InitImage /\ [][NextImage]_vars

\* What the parts of an input say about it.
HostBlocked(i) == \E d \in BAD_IMAGE_DOMAINS : EndsWith(i.host, d)

KeywordInPath(i) == \E k \in BAD_IMAGE_KEYWORDS : Contains(Lower(i.dir \o i.name), k)

JunkInName(i) == \E k \in JUNK_IMAGE_PATTERNS : Contains(Lower(i.name \o <<".","j","p","g">>), k)

OtherRejection(i) ==
    i.kind # "http" \/ HostBlocked(i) \/ KeywordInPath(i) \/ JunkInName(i)

DeclaredSizeOK(i) ==
    i.w >= 600 /\ i.h >= 315 /\ 6 * i.h <= 10 * i.w /\ 10 * i.w <= 22 * i.h

\* C8: an image URL with no other rejection reason that declares dimensions
\* (w, h), as width=/height= query parameters or as a -WxH. filename suffix,
\* is valid exactly when w >= 600, h >= 315 and 0.6 <= w/h <= 2.2.
C8_DeclaredDimensionsDecide ==
    (valid \in {"True", "False"} /\ img.dims # "none" /\ ~OtherRejection(img))
        => (valid = "True" <=> DeclaredSizeOK(img))

\* C9: is_valid_article_image is false for an empty URL, a data URI, a host
\* ending with a blocked domain, a URL containing a blocklisted keyword and
\* a junk file name; a URL with none of these and no declared dimensions is
\* accepted.
C9_RejectionReasons ==
    valid \in {"True", "False"} =>
        /\ OtherRejection(img) => valid = "False"
        /\ (~OtherRejection(img) /\ img.dims = "none") => valid = "True"

C9_Witness ==
    /\ valid = "False"
    /\ img.kind = "http"
    /\ ~HostBlocked(img)
    /\ ~JunkInName(img)
    /\ Contains(Lower(img.dir), <<"a","v","a","t","a","r">>)

(***************************************************************************)
(* Documents.  A page is what BeautifulSoup(html, 'lxml') holds, as far as *)
(* the extractor reads it:                                                 *)
(*   base      the article's URL                                           *)
(*   ogs       the <meta property="og:image"> tags in document order, each *)
(*             with its content and the block that holds it (0: <head>)    *)
(*   og_title  the content of <meta property="og:title">, None without it  *)
(*   title     the text of <title>: None without the tag, <<>> when the    *)
(*             tag is empty (soup.title.string is then None)               *)
(*   desc, og_desc   the meta description and og:description contents      *)
(*   lds       the <script type="application/ld+json"> blocks, in order    *)
(*   blocks    the top-level elements of <body> in document order, each    *)
(*             with its tag, its one class, the number of its <p>, its     *)
(*             <img> and its <iframe> children                             *)
(*   yt_divs   the ids of elements matching '.youtube[id]', outside blocks *)
(*   traf      what trafilatura.extract returns for the cleaned page       *)
(* No element has an id; an <img> has src, data-src, width and height and  *)
(* may stand in a <figure>; there are no <picture>, <noscript>, srcset,    *)
(* inline styles, data-img-url nodes, headings or anchors.                 *)
(***************************************************************************)

NoImage == [k |-> "absent", url |-> <<>>]

NoHeadline == [k |-> "absent", s |-> <<>>]

\* A JSON-LD object {"@type": type, "image": image, "headline": headline,
\* "description": description}.
LdObject(type, image, headline, description) ==
    [type |-> type, image |-> image, headline |-> headline, description |-> description]

EmptyObject == LdObject("", NoImage, NoHeadline, None)

\* A script block: its text is well-formed JSON ("valid"), JSON but for one
\* trailing comma ("trailing_comma"), no JSON at all ("malformed") or absent
\* ("empty": script.string is None).  Its value is
\*   shape "object"   the object obj
\*   shape "graph"    {"@graph": [obj]}
\*   shape "list"     [obj]
\*   shape "string"   a JSON string
LdScript(text, shape, obj) == [text |-> text, shape |-> shape, obj |-> obj]

(***************************************************************************)
(* _coerce_url (lines 17-57) on an image value: absent, a string, an       *)
(* object {"url": ...} or a list of one string                             *)
(***************************************************************************)
_coerce_url(candidate) ==
    IF candidate.k = "absent" THEN None
    ELSE IF Strip(candidate.url) = <<>> THEN None
    ELSE Strip(candidate.url)

(***************************************************************************)
(* _extract_json_ld (lines 486-504): the objects of all script blocks.     *)
(* Before parsing, re.sub(r',\s*([\}\]])', r'\1', script.string) removes  *)
(* every comma that is followed, after optional whitespace, by a closing   *)
(* brace or bracket, with that whitespace.  This makes "trailing_comma"    *)
(* text parse; it also rewrites the text of string values, where the same  *)
(* characters can stand (a match never crosses the quote that ends a       *)
(* string).  A list contributes its objects, a graph wrapper is one        *)
(* object, any other value is dropped.                                     *)
(***************************************************************************)
\* the position of the closing brace or bracket of a match at i, 0 for none
TrailingCommaEnd(t, i) ==
    IF t[i] # "," THEN 0
    ELSE Bind(SkipSpace(t, i + 1), LAMBDA j :
            IF j <= Len(t) /\ t[j] \in {"}", "]"} THEN j ELSE 0)

RECURSIVE RepairFrom(_, _)
RepairFrom(t, i) ==
    IF i > Len(t) THEN <<>>
    ELSE Bind(TrailingCommaEnd(t, i), LAMBDA j :
            IF j > 0 THEN <<t[j]>> \o RepairFrom(t, j + 1)
            ELSE <<t[i]>> \o RepairFrom(t, i + 1))

\* the repair on the text of one string value
RepairCommas(t) == RepairFrom(t, 1)

\* json.loads(clean_str): the object with the texts of its strings repaired
RepairedObject(obj) ==
    [obj EXCEPT !.image.url = RepairCommas(@),
                !.headline.s = RepairCommas(@),
                !.description = RepairCommas(@)]

RECURSIVE _extract_json_ld(_)
_extract_json_ld(scripts) ==
    IF scripts = <<>> THEN <<>>
    ELSE LET s == Head(scripts)
             here == IF s.text \in {"empty", "malformed"} THEN <<>>
                     ELSE IF s.shape \in {"object", "graph", "list"}
                          THEN <<[s EXCEPT !.obj = RepairedObject(@)]>>
                     ELSE <<>>
         IN  here \o _extract_json_ld(Tail(scripts))

ARTICLE_TYPES == {"NewsArticle", "Article", "BlogPosting"}

\* no Article object: None
NoSchema == [kind |-> "None"]

\* _find_news_article_in_json_ld (lines 506-515): the first object typed
\* Article/NewsArticle/BlogPosting, looking through @graph
_find_news_article_in_json_ld(data) ==
    LET hits == {i \in 1..Len(data) : data[i].obj.type \in ARTICLE_TYPES}
    IN  IF hits = {} THEN NoSchema ELSE data[Min(hits)].obj

(***************************************************************************)
(* _pre_clean_html (lines 549-631), for pages of the shape above: the      *)
(* deny-list of selectors removes a block by its tag or class, with all    *)
(* it holds.                                                               *)
(***************************************************************************)
DENY_TAGS == {"header", "footer", "nav", "aside"}

DENY_CLASSES == {
    <<"c","t","a","-","m","i","d","d","l","e">>, <<"i","n","f","o","m","o","n","e","y","-","r","e","a","d","-","m","o","r","e">>, <<"r","e","a","d","-","m","o","r","e">>, <<"p","o","s","t","_","_","r","e","l","a","t","e","d">>,
    <<"s","h","a","r","i","n","g">>, <<"s","h","a","r","e">>, <<"s","o","c","i","a","l">>, <<"b","a","n","n","e","r">>, <<"a","d","s">>, <<"a","d","v","e","r","t","i","s","e","m","e","n","t">>,
    <<"s","p","o","n","s","o","r","e","d">>, <<"p","a","i","d","-","c","o","n","t","e","n","t">>, <<"p","a","r","t","n","e","r">>, <<"o","u","t","b","r","a","i","n">>, <<"t","a","b","o","o","l","a">>,
    <<"r","e","v","i","e","w">>, <<"s","c","o","r","e">>, <<"m","e","t","e","r">>, <<"c","o","m","m","e","n","t","s">>,
    <<"a","u","t","h","o","r">>, <<"a","u","t","h","o","r","-","b","o","x">>, <<"p","o","s","t","-","a","u","t","h","o","r">>, <<"b","y","l","i","n","e">>, <<"e","n","t","r","y","-","a","u","t","h","o","r">>,
    <<"a","v","a","t","a","r">>, <<"a","u","t","h","o","r","_","_","i","m","a","g","e">>, <<"a","u","t","h","o","r","-","p","r","o","f","i","l","e">>, <<"s","u","b","s","c","r","i","b","e">>}

DENY_CLASS_PARTS == {
    <<"s","r","d","b">>, <<"r","a","t","i","n","g">>, <<"r","e","l","a","t","e","d">>, <<"r","e","l","a","c","i","o","n","a","d">>, <<"r","e","l","a","c","i","o","n","a">>, <<"r","e","c","o","m","m","e","n","d">>,
    <<"v","e","j","a","-","t","a","m","b","e","m">>, <<"l","e","i","a","-","t","a","m","b","e","m">>, <<"t","r","e","n","d","i","n","g">>, <<"s","i","d","e","b","a","r">>, <<"r","e","c","o","m","m","e","n","d","e","d">>,
    <<"s","c","r","e","e","n","-","h","u","b">>, <<"s","c","r","e","e","n","h","u","b">>, <<"m","o","s","t","-","p","o","p","u","l","a","r">>, <<"p","o","p","u","l","a","r">>, <<"n","e","w","s","l","e","t","t","e","r">>,
    <<"a","d","-">>, <<"a","d","v","e","r","t">>}

Denied(b) ==
    \/ b.tag \in DENY_TAGS
    \/ b.cls \in DENY_CLASSES
    \/ b.tag = "div" /\ b.cls = <<"w","i","d","g","e","t">>
    \/ \E part \in DENY_CLASS_PARTS : Contains(b.cls, part)

\* the blocks that survive, by index
Kept(p) == {i \in 1..Len(p.blocks) : ~Denied(p.blocks[i])}

_pre_clean_html(p) ==
    LET kept == Kept(p)
        \* the new index of kept block i
        idx(i) == Cardinality({j \in kept : j <= i})
        ogs == SelectAt(p.ogs, LAMBDA k : p.ogs[k].at = 0 \/ p.ogs[k].at \in kept)
    IN  [p EXCEPT
            !.blocks = SelectAt(p.blocks, LAMBDA i : i \in kept),
            !.ogs = [k \in 1..Len(ogs) |->
                        [ogs[k] EXCEPT !.at = IF ogs[k].at = 0 THEN 0 ELSE idx(ogs[k].at)]]]

(***************************************************************************)
(* _find_article_body (lines 241-276).  The first <article> is returned    *)
(* at once.  Without one, line 257 calls soup.select with a selector list  *)
(* that ends in ", ": the selector parser rejects the empty last selector, *)
(* so the call raises and the scoring loop below it is never reached.      *)
(* The result is the index of the root block, or raise = TRUE.             *)
(***************************************************************************)
ArticleBlocks(p) == {i \in 1..Len(p.blocks) : p.blocks[i].tag = "article"}

_find_article_body(p) ==
    IF ArticleBlocks(p) # {}
    THEN [raise |-> FALSE, root |-> Min(ArticleBlocks(p))]
    ELSE [raise |-> TRUE, root |-> 0]

\* _abs (lines 220-226)
_abs(u, base) ==
    IF Falsy(u) THEN None
    ELSE Bind(Strip(u), LAMBDA s :
            IF s = <<>> \/ StartsWith(s, <<"d","a","t","a",":">>) THEN None ELSE urljoin(base, s))

\* the concatenation of f(s[1]), ..., f(s[n])
FlatMap(s, f(_)) ==
    LET RECURSIVE Go(_)
        Go(i) == IF i > Len(s) THEN <<>> ELSE f(s[i]) \o Go(i + 1)
    IN  Go(1)

\* collect_images_from_article._push (lines 292-300): what one candidate
\* appends to urls
_push(candidate, base) ==
    IF Falsy(candidate) THEN <<>>
    ELSE Bind(_abs(candidate, base), LAMBDA abs_u :
            IF abs_u = None THEN <<>>
            ELSE IF ~is_valid_article_image(abs_u) THEN <<>>
            ELSE <<RStripSlash(abs_u)>>)

\* lines 302-342: urls after the scans of the root's <img>, of its nodes
\* with a data-src attribute and of its <figure>s
PushedURLs(imgs, base) ==
    FlatMap(imgs, LAMBDA i : _push(IF ~Falsy(i.src) THEN i.src ELSE i.data_src, base))
    \o FlatMap(imgs, LAMBDA i : IF i.data_src = None THEN <<>> ELSE _push(i.data_src, base))
    \o FlatMap(imgs, LAMBDA i : IF i.figure /\ ~Falsy(i.src) THEN _push(i.src, base) ELSE <<>>)

\* line 348: 0 for a URL whose netloc is a priority CDN host, else 1
Pref(u) == IF url_netloc(u) \in PRIORITY_CDN_DOMAINS THEN 0 ELSE 1

\* the first position of u in seq s
FirstSeen(s, u) == Min({i \in 1..Len(s) : s[i] = u})

\* the elements of the set S as a sequence ascending by less
SortedSeq(S, less(_, _)) ==
    LET RECURSIVE Go(_)
        Go(R) == IF R = {} THEN <<>>
                 ELSE Bind(CHOOSE x \in R : \A y \in R \ {x} : less(x, y),
                           LAMBDA m : <<m>> \o Go(R \ {m}))
    IN  Go(S)

\* lines 344-351 as the specification words them: (priority, first seen)
DedupAndOrder_first_seen(urls) ==
    SortedSeq({urls[i] : i \in 1..Len(urls)},
              LAMBDA a, b : \/ Pref(a) < Pref(b)
                            \/ Pref(a) = Pref(b) /\ FirstSeen(urls, a) < FirstSeen(urls, b))

\* lines 344-351: one entry per URL, sorted by (priority, URL)
DedupAndOrder(urls) ==
    SortedSeq({urls[i] : i \in 1..Len(urls)},
              LAMBDA a, b : Pref(a) < Pref(b) \/ (Pref(a) = Pref(b) /\ StrLess(a, b)))

\* collect_images_from_article (lines 278-351)
collect_images_from_article(p, base) ==
    LET root == _find_article_body(p)
    IN  IF root.raise THEN [raise |-> TRUE, list |-> <<>>]
        ELSE Bind(PushedURLs(p.blocks[root.root].imgs, base), LAMBDA urls :
                [raise |-> FALSE, list |-> DedupAndOrder(urls)])

(***************************************************************************)
(* ContentExtractor._pick_featured_image (lines 693-766).  The result is   *)
(* the URL or None, or exc = "AttributeError" when data.get is called on   *)
(* a JSON value that is no object: the except clause of lines 735-737      *)
(* names JSONDecodeError, KeyError, TypeError and IndexError only.         *)
(***************************************************************************)
Returned(u) == [exc |-> "", url |-> u]

Raised(e) == [exc |-> e, url |-> None]

\* lines 739-763: the <img> of the first <article> with the largest declared
\* area, the first one among equals
LargestArticleImage(p) ==
    LET imgs == p.blocks[Min(ArticleBlocks(p))].imgs
        src(i) == IF ~Falsy(imgs[i].src) THEN imgs[i].src ELSE imgs[i].data_src
        digits(t) == IF t = None THEN <<"0">> ELSE t
        sized(i) == /\ ~Falsy(src(i))
                    /\ AllDigits(digits(imgs[i].width))
                    /\ AllDigits(digits(imgs[i].height))
        area(i) == DigitsValue(digits(imgs[i].width)) * DigitsValue(digits(imgs[i].height))
        cands == {i \in 1..Len(imgs) : sized(i) /\ area(i) > 0}
        best == CHOOSE i \in cands :
                    \A j \in cands : area(j) < area(i) \/ (area(j) = area(i) /\ i <= j)
    IN  IF ArticleBlocks(p) = {} \/ cands = {} THEN None ELSE src(best)

\* lines 739-766
PickFromArticle(p, base) ==
    IF LargestArticleImage(p) = None THEN Returned(None)
    ELSE Returned(urljoin(base, LargestArticleImage(p)))

\* lines 719-733: the image field of a parsed object
PickFromObject(p, base, obj) ==
    IF obj.image.k = "absent" \/ obj.image.url = <<>> THEN PickFromArticle(p, base)
    ELSE Returned(urljoin(base, obj.image.url))

\* lines 708-737: the first script block, parsed as it stands
PickFromJsonLd(p, base) ==
    IF p.lds = <<>> \/ p.lds[1].text = "empty" THEN PickFromArticle(p, base)
    ELSE IF p.lds[1].text # "valid" THEN PickFromArticle(p, base)
    ELSE IF p.lds[1].shape = "string" THEN Raised("AttributeError")
    ELSE IF p.lds[1].shape = "graph" THEN PickFromArticle(p, base)
    ELSE PickFromObject(p, base, p.lds[1].obj)

_pick_featured_image(p, base) ==
    IF p.ogs # <<>> /\ p.ogs[1].content # <<>>
    THEN Returned(urljoin(base, p.ogs[1].content))
    ELSE PickFromJsonLd(p, base)

(***************************************************************************)
(* YouTube (lines 768-824)                                                 *)
(***************************************************************************)
IsIdChar(c) == IsAlpha(c) \/ IsDigit(c) \/ c \in {"_", "-"}

YT_PREFIXES == {<<"y","o","u","t","u","b","e",".","c","o","m","/","e","m","b","e","d","/">>, <<"y","o","u","t","u","b","e",".","c","o","m","/","s","h","o","r","t","s","/">>, <<"y","o","u","t","u","b","e",".","c","o","m","/","v","/">>, <<"y","o","u","t","u",".","b","e","/">>}

\* the positions in s just after an occurrence of one of the prefixes at
\* which 11 id characters follow
IdAfter(s, prefixes) ==
    {i + Len(pre) : pre \in prefixes, i \in 1..Len(s)} \cap
    {j \in 1..(Len(s) - 10) :
        /\ \A k \in j..(j + 10) : IsIdChar(s[k])
        /\ \E pre \in prefixes : j > Len(pre) /\ SubSeq(s, j - Len(pre), j - 1) = pre}

\* the text matched by ([A-Za-z0-9_-]{11})/hqdefault after a "/"
HqDefaultId(s) ==
    LET at == {j \in 2..(Len(s) - 20) :
                  /\ s[j - 1] = "/"
                  /\ \A k \in j..(j + 10) : IsIdChar(s[k])
                  /\ SubSeq(s, j + 11, j + 20) = <<"/","h","q","d","e","f","a","u","l","t">>}
    IN  IF at = {} THEN None ELSE SubSeq(s, Min(at), Min(at) + 10)

\* _extract_youtube_id(url, soup) (lines 768-804); ogs are the og:image
\* tags of soup
_extract_youtube_id(u, ogs) ==
    IF u = <<>> THEN None
    ELSE IF IdAfter(u, YT_PREFIXES) # {}
         THEN SubSeq(u, Min(IdAfter(u, YT_PREFIXES)), Min(IdAfter(u, YT_PREFIXES)) + 10)
    ELSE IF /\ Contains(url_netloc(u), <<"y","o","u","t","u","b","e",".","c","o","m">>)
            /\ url_path(u) = <<"/","w","a","t","c","h">>
            /\ parse_qs_get(url_query(u), <<"v">>) # <<>>
            /\ Len(parse_qs_get(url_query(u), <<"v">>)[1]) = 11
         THEN parse_qs_get(url_query(u), <<"v">>)[1]
    ELSE IF ogs # <<>> /\ ogs[1].content # <<>> THEN HqDefaultId(ogs[1].content)
    ELSE None

\* lines 816-820 without the seen set: every id is kept
KeepAll(ids) == ids

\* lines 816-820: the first occurrence of each id, in order
Dedupe(ids) ==
    LET RECURSIVE Go(_, _)
        \* ordered after the first n ids, given ordered before them
        Go(n, ordered) ==
            IF n > Len(ids) THEN ordered
            ELSE IF \E i \in 1..Len(ordered) : ordered[i] = ids[n]
                 THEN Go(n + 1, ordered)
                 ELSE Bind(Append(ordered, ids[n]), LAMBDA next : Go(n + 1, next))
    IN  Go(1, <<>>)

VideoEntry(v) ==
    [id |-> v,
     embed_url |-> <<"h","t","t","p","s",":","/","/","w","w","w",".","y","o","u","t","u","b","e",".","c","o","m","/","e","m","b","e","d","/">> \o v,
     watch_url |-> <<"h","t","t","p","s",":","/","/","w","w","w",".","y","o","u","t","u","b","e",".","c","o","m","/","w","a","t","c","h","?","v","=">> \o v]

\* lines 807-815: the ids found, iframes first, then the marked elements
ScannedIds(ogs, iframes, divs) ==
    FlatMap(iframes, LAMBDA src : Bind(_extract_youtube_id(src, ogs), LAMBDA vid :
                                      IF Falsy(vid) THEN <<>> ELSE <<vid>>))
    \o SelectSeq(divs, LAMBDA d : d # <<>>)

\* _extract_youtube_videos(soup) (lines 806-824), soup given by its og:image
\* tags, its iframes' src and the ids of its marked elements
_extract_youtube_videos(ogs, iframes, divs) ==
    Bind(ScannedIds(ogs, iframes, divs), LAMBDA ids :
        Bind(Dedupe(ids), LAMBDA ordered :
            [i \in 1..Len(ordered) |-> VideoEntry(ordered[i])]))

\* every iframe src of the page, in document order
PageIframes(p) == FlatMap(p.blocks, LAMBDA b : b.iframes)

PageVideos(p) == _extract_youtube_videos(p.ogs, PageIframes(p), p.yt_divs)

(***************************************************************************)
(* Inputs of collect_images_from_article: pages with one <article> whose   *)
(* <img> are drawn from a few shapes                                       *)
(***************************************************************************)

\* the largest number of <img> in a block
MaxImgs == 3

Img(src, data_src, width, height, figure) ==
    [src |-> src, data_src |-> data_src, width |-> width, height |-> height,
     figure |-> figure]

Block(tag, cls, ps, imgs, iframes) ==
    [tag |-> tag, cls |-> cls, ps |-> ps, imgs |-> imgs, iframes |-> iframes]

\* a page with nothing in it
EmptyPage(base) ==
    [base |-> base, ogs |-> <<>>, og_title |-> None, title |-> None,
     desc |-> None, og_desc |-> None, lds |-> <<>>, blocks |-> <<>>,
     yt_divs |-> <<>>, traf |-> <<>>]

OtherBase == <<"h","t","t","p","s",":","/","/","a",".","c","o","/","n","/","1">>

CollectImgs == {
    Img(<<"h","t","t","p","s",":","/","/","b",".","c","o","/","i","/","z",".","j","p","g">>, None, None, None, FALSE),
    Img(<<"h","t","t","p","s",":","/","/","b",".","c","o","/","i","/","a",".","j","p","g">>, None, None, None, TRUE),
    Img(<<"h","t","t","p","s",":","/","/","s","t","a","t","i","c","1",".","s","r","c","d","n",".","c","o","m","/","i","/","m",".","j","p","g">>, None, None, None, FALSE),
    Img(None, <<"/","i","/","r","e","l",".","j","p","g">>, None, None, FALSE),
    Img(<<"h","t","t","p","s",":","/","/","b",".","c","o","/","i","/","a",".","j","p","g","/">>, None, None, None, TRUE),
    Img(<<"h","t","t","p","s",":","/","/","B",".","c","o","/","i","/","A",".","j","p","g">>, None, None, None, FALSE),
    Img(<<"h","t","t","p","s",":","/","/","b",".","c","o","/","a","v","a","t","a","r","/","x",".","j","p","g">>, None, None, None, FALSE)}

\* the sequences over S of length at most n
SeqsUpTo(S, n) == UNION {[1..k -> S] : k \in 0..n}

CollectInputs ==
    {[EmptyPage(OtherBase) EXCEPT !.blocks = <<Block("article", <<>>, 1, imgs, <<>>)>>] :
        imgs \in SeqsUpTo(CollectImgs, MaxImgs)}
    \cup {EmptyPage(OtherBase)}

InitCollect ==
    /\ body \in CollectInputs
    /\ collected = [kind |-> "pending"]
    /\ NoImageCall
    /\ NoExtractCall
    /\ NoRepeatCall
    /\ NoSanitizerCall
    /\ NoSoupPass
    /\ NoLocateCall
    /\ NoUploadCall
    /\ NoPipeline
    /\ NoPoolCall
    /\ NoRewriteCall

\* a call of collect_images_from_article(soup, base_url) that returns
CollectReturns ==
    /\ collected.kind = "pending"
    /\ LET r == collect_images_from_article(body, body.base)
       IN  /\ ~r.raise
           /\ collected' = [kind |-> "returned", list |-> r.list]
    /\ UNCHANGED <<ai, pool, feeds, seen_articles, posts, wp_created, failures, turns, txn, procs, wp, located, soup_pass, soup_in, soup_out, san_pass, san_texts, trees, call_urls, calls, img, url, valid, body, doc, pc, meta, container, site_tries, result>>

\* a call of collect_images_from_article(soup, base_url) that raises
CollectRaises ==
    /\ collected.kind = "pending"
    /\ _find_article_body(body).raise
    /\ collected' = [kind |-> "raised"]
    /\ UNCHANGED <<ai, pool, feeds, seen_articles, posts, wp_created, failures, turns, txn, procs, wp, located, soup_pass, soup_in, soup_out, san_pass, san_texts, trees, call_urls, calls, img, url, valid, body, doc, pc, meta, container, site_tries, result>>

NextCollect == CollectReturns \/ CollectRaises

SpecCollect == InitCollect /\ [][NextCollect]_vars

\* urls, as the scans of the call filled it
ScannedURLs == PushedURLs(body.blocks[_find_article_body(body).root].imgs, body.base)

\* C10 as stated: the list is ordered by priority ascending and, among URLs
\* of equal priority, by the order in which they were first seen.
C10_PriorityThenFirstSeen ==
    collected.kind = "returned" =>
        \A i, j \in 1..Len(collected.list) :
            i < j =>
                \/ Pref(collected.list[i]) < Pref(collected.list[j])
                \/ /\ Pref(collected.list[i]) = Pref(collected.list[j])
                   /\ FirstSeen(ScannedURLs, collected.list[i])
                        < FirstSeen(ScannedURLs, collected.list[j])

\* C10 amended: the list is ordered by priority ascending (a URL whose
\* netloc is a priority CDN host first) and, among URLs of equal priority,
\* ascending by the URL string, compared by code point.
C10_PriorityThenURL ==
    collected.kind = "returned" =>
        \A i, j \in 1..Len(collected.list) :
            i < j =>
                \/ Pref(collected.list[i]) < Pref(collected.list[j])
                \/ /\ Pref(collected.list[i]) = Pref(collected.list[j])
                   /\ StrLess(collected.list[i], collected.list[j])

\* a returned list with a CDN URL first and two URLs of equal priority in
\* an order that is not the order they were seen in
C10_Witness ==
    /\ collected.kind = "returned"
    /\ Len(collected.list) >= 3
    /\ Pref(collected.list[1]) = 0
    /\ \E i, j \in 1..Len(collected.list) :
          /\ i < j
          /\ Pref(collected.list[i]) = Pref(collected.list[j])
          /\ FirstSeen(ScannedURLs, collected.list[i])
                > FirstSeen(ScannedURLs, collected.list[j])

(***************************************************************************)
(* The site-specific cleaners                                              *)
(***************************************************************************)
NoContainer == [kind |-> "None"]

\* _clean_html_for_lance_definitivo (lines 928-983): a new tree of the <p>
\* and of the <figure>s of the first <article> whose <img> is no .svg icon;
\* None without an <article> or without any such element.  Of the page it
\* keeps neither <iframe> nor <meta>.
_clean_html_for_lance_definitivo(p) ==
    IF ArticleBlocks(p) = {} THEN NoContainer
    ELSE LET a == p.blocks[Min(ArticleBlocks(p))]
             figures == SelectSeq(a.imgs,
                            LAMBDA i : i.figure /\ ~(~Falsy(i.src) /\ EndsWith(i.src, <<".","s","v","g">>)))
         IN  IF a.ps = 0 /\ figures = <<>> THEN NoContainer
             ELSE [kind |-> "lance", ps |-> a.ps, imgs |-> figures,
                   iframes |-> <<>>, ogs |-> <<>>]

\* _clean_html_for_ge (lines 985-1040): the first div.materia-conteudo, else
\* the first article.post-content, else the first div.mc-article-body, as it
\* stands in the page (the blocks of the model hold none of the widgets the
\* cleaner deletes); None without any of them
GeContainers(p) ==
    LET is(tag, cls) == {i \in 1..Len(p.blocks) :
                            p.blocks[i].tag = tag /\ p.blocks[i].cls = cls}
    IN  IF is("div", <<"m","a","t","e","r","i","a","-","c","o","n","t","e","u","d","o">>) # {} THEN is("div", <<"m","a","t","e","r","i","a","-","c","o","n","t","e","u","d","o">>)
        ELSE IF is("article", <<"p","o","s","t","-","c","o","n","t","e","n","t">>) # {} THEN is("article", <<"p","o","s","t","-","c","o","n","t","e","n","t">>)
        ELSE is("div", <<"m","c","-","a","r","t","i","c","l","e","-","b","o","d","y">>)

_clean_html_for_ge(p) ==
    IF GeContainers(p) = {} THEN NoContainer
    ELSE LET i == Min(GeContainers(p))
         IN  [kind |-> "ge", ps |-> p.blocks[i].ps, imgs |-> p.blocks[i].imgs,
              iframes |-> p.blocks[i].iframes,
              ogs |-> SelectSeq(p.ogs, LAMBDA m : m.at = i)]

(***************************************************************************)
(* Title and excerpt from the meta tags (lines 867-869 and 1052-1054)      *)
(***************************************************************************)
NO_TITLE == <<"N","o"," ","T","i","t","l","e"," ","F","o","u","n","d">>

\* og:title's content, else soup.title.string (None for an empty <title>),
\* else 'No Title Found' when the page has no <title>
MetaTitle(p) ==
    IF ~Falsy(p.og_title) THEN p.og_title
    ELSE IF p.title = None THEN NO_TITLE
    ELSE IF p.title = <<>> THEN None
    ELSE p.title

\* the meta description's content, else og:description's, else ''
MetaExcerpt(p) ==
    IF ~Falsy(p.desc) THEN p.desc
    ELSE IF p.og_desc = None THEN <<>>
    ELSE p.og_desc

\* (excerpt or "").strip()
StripOrEmpty(s) == IF Falsy(s) THEN <<>> ELSE Strip(s)

(***************************************************************************)
(* ContentExtractor._extract_with_trafilatura (lines 826-926): the generic *)
(* path.  One try block holds the whole body, and its except clause        *)
(* returns None.                                                           *)
(***************************************************************************)
ReturnsNone == [kind |-> "None"]

FigureMarkup(u) == [figure |-> TRUE, url |-> u]

PlainURL(u) == [figure |-> FALSE, url |-> u]

\* line 862, with the headline an absent field, a string or a list
SchemaTitle(schema) ==
    IF schema.headline.k = "absent" \/ schema.headline.s = <<>>
    THEN [str |-> TRUE, s |-> NO_TITLE]
    ELSE [str |-> schema.headline.k = "string", s |-> schema.headline.s]

\* lines 857-869: title, excerpt and featured image from the Article
\* object when there is one, else from the meta tags
GenericMetadata(p, schema, picked) ==
    IF schema # NoSchema
    THEN [title |-> SchemaTitle(schema),
          excerpt |-> schema.description,
          featured |-> IF Falsy(picked.url) THEN _coerce_url(schema.image)
                       ELSE picked.url]
    ELSE [title |-> [str |-> MetaTitle(p) # None, s |-> MetaTitle(p)],
          excerpt |-> MetaExcerpt(p),
          featured |-> picked.url]

\* lines 871-926, given the values of the steps before them
GenericRecord(p, schema, md, images) ==
    \* lines 881-883
    IF p.traf = <<>> THEN ReturnsNone
    \* line 912: title.strip() on a value that is no string
    ELSE IF ~md.title.str THEN ReturnsNone
    ELSE LET others == SelectSeq(images.list, LAMBDA u : u # md.featured)
         IN  [kind |-> "record",
              title |-> Strip(md.title.s),
              content |-> [by |-> "trafilatura", html |-> p.traf],
              excerpt |-> StripOrEmpty(md.excerpt),
              featured_image_url |-> md.featured,
              images |-> [i \in 1..Len(others) |-> FigureMarkup(others[i])],
              videos |-> PageVideos(p),
              source_url |-> p.base,
              schema_original |-> schema]

_extract_with_trafilatura(p0) ==
    Bind(_find_news_article_in_json_ld(_extract_json_ld(p0.lds)), LAMBDA schema :
    Bind(_pre_clean_html(p0), LAMBDA p :
        \* line 846: _convert_data_img_to_figure locates the body first
        IF _find_article_body(p).raise THEN ReturnsNone
        ELSE Bind(_pick_featured_image(p, p.base), LAMBDA picked :
            \* line 849
            IF picked.exc # "" THEN ReturnsNone
            ELSE Bind(GenericMetadata(p, schema, picked), LAMBDA md :
                 Bind(collect_images_from_article(p, p.base), LAMBDA images :
                     GenericRecord(p, schema, md, images))))))

(***************************************************************************)
(* ContentExtractor.extract (lines 1042-1094), step by step                *)
(***************************************************************************)

\* line 1048 (a host of the model holds "www." at most once)
Domain(p) ==
    LET d == Lower(url_netloc(p.base))
    IN  IF Contains(d, <<"w","w","w",".">>)
        THEN SubSeq(d, 1, Find(d, <<"w","w","w",".">>) - 1) \o From(d, Find(d, <<"w","w","w",".">>) + 4)
        ELSE d

IsLance(p) == Contains(Domain(p), <<"l","a","n","c","e",".","c","o","m",".","b","r">>)

IsGe(p) == ~IsLance(p) /\ Contains(Domain(p), <<"g","e",".","g","l","o","b","o",".","c","o","m">>)

\* lines 1051-1055 when _pick_featured_image returns
Step1Metadata ==
    /\ pc = "start"
    /\ LET picked == _pick_featured_image(doc, doc.base)
       IN  /\ picked.exc = ""
           /\ meta' = [kind |-> "meta",
                       featured_image_url |-> picked.url,
                       title |-> MetaTitle(doc),
                       excerpt |-> MetaExcerpt(doc),
                       videos_full_page |-> PageVideos(doc)]
    /\ pc' = "TRY_SITE_RULE"
    /\ UNCHANGED <<ai, pool, feeds, seen_articles, posts, wp_created, failures, turns, txn, procs, wp, located, soup_pass, soup_in, soup_out, san_pass, san_texts, trees, call_urls, calls, img, url, valid, body, collected, doc, container, site_tries, result>>

\* line 1051 when _pick_featured_image raises: nothing in extract catches it
Step1Raises ==
    /\ pc = "start"
    /\ _pick_featured_image(doc, doc.base).exc # ""
    /\ result' = [kind |-> "raised", exc |-> _pick_featured_image(doc, doc.base).exc]
    /\ pc' = "done"
    /\ UNCHANGED <<ai, pool, feeds, seen_articles, posts, wp_created, failures, turns, txn, procs, wp, located, soup_pass, soup_in, soup_out, san_pass, san_texts, trees, call_urls, calls, img, url, valid, body, collected, doc, meta, container, site_tries>>

\* lines 1058-1065: the cleaner's result decides the branch
Routed(c) == IF c = NoContainer THEN "FALLBACK_GENERIC" ELSE "SITE_SUCCESS"

\* lines 1059-1060
TryLance ==
    /\ pc = "TRY_SITE_RULE"
    /\ IsLance(doc)
    /\ container' = _clean_html_for_lance_definitivo(doc)
    /\ site_tries' = site_tries + 1
    /\ pc' = Routed(container')
    /\ UNCHANGED <<ai, pool, feeds, seen_articles, posts, wp_created, failures, turns, txn, procs, wp, located, soup_pass, soup_in, soup_out, san_pass, san_texts, trees, call_urls, calls, img, url, valid, body, collected, doc, meta, result>>

\* lines 1061-1062
TryGe ==
    /\ pc = "TRY_SITE_RULE"
    /\ IsGe(doc)
    /\ container' = _clean_html_for_ge(doc)
    /\ site_tries' = site_tries + 1
    /\ pc' = Routed(container')
    /\ UNCHANGED <<ai, pool, feeds, seen_articles, posts, wp_created, failures, turns, txn, procs, wp, located, soup_pass, soup_in, soup_out, san_pass, san_texts, trees, call_urls, calls, img, url, valid, body, collected, doc, meta, result>>

\* line 1058 stands: no rule for the host
NoSiteRule ==
    /\ pc = "TRY_SITE_RULE"
    /\ ~IsLance(doc) /\ ~IsGe(doc)
    /\ container' = NoContainer
    /\ pc' = "FALLBACK_GENERIC"
    /\ UNCHANGED <<ai, pool, feeds, seen_articles, posts, wp_created, failures, turns, txn, procs, wp, located, soup_pass, soup_in, soup_out, san_pass, san_texts, trees, call_urls, calls, img, url, valid, body, collected, doc, meta, site_tries, result>>

\* line 1069
ContainerImages(c, base) ==
    FlatMap(c.imgs, LAMBDA i : IF ~Falsy(i.src) THEN <<urljoin(base, i.src)>>
                               ELSE IF ~Falsy(i.data_src) THEN <<urljoin(base, i.data_src)>>
                               ELSE <<>>)

\* lines 1070-1080: the container's videos, then the full page's
MergedVideos(c, full) ==
    Bind(_extract_youtube_videos(c.ogs, c.iframes, <<>>) \o full, LAMBDA both :
        Bind(Dedupe([i \in 1..Len(both) |-> both[i].id]), LAMBDA ids :
            [i \in 1..Len(ids) |->
                both[CHOOSE k \in 1..Len(both) : both[k].id = ids[i]]]))

\* lines 1066-1090 when title is a string
SiteReturns ==
    /\ pc = "SITE_SUCCESS"
    /\ meta.title # None
    /\ LET images == SelectSeq(ContainerImages(container, doc.base),
                               LAMBDA u : u # meta.featured_image_url)
       IN  result' = [kind |-> "record",
                      title |-> Strip(meta.title),
                      content |-> [by |-> "site", html |-> container],
                      excerpt |-> StripOrEmpty(meta.excerpt),
                      featured_image_url |-> meta.featured_image_url,
                      images |-> [i \in 1..Len(images) |-> PlainURL(images[i])],
                      videos |-> MergedVideos(container, meta.videos_full_page),
                      source_url |-> doc.base]
    /\ pc' = "done"
    /\ UNCHANGED <<ai, pool, feeds, seen_articles, posts, wp_created, failures, turns, txn, procs, wp, located, soup_pass, soup_in, soup_out, san_pass, san_texts, trees, call_urls, calls, img, url, valid, body, collected, doc, meta, container, site_tries>>

\* line 1083 when title is None: None has no strip
SiteRaises ==
    /\ pc = "SITE_SUCCESS"
    /\ meta.title = None
    /\ result' = [kind |-> "raised", exc |-> "AttributeError"]
    /\ pc' = "done"
    /\ UNCHANGED <<ai, pool, feeds, seen_articles, posts, wp_created, failures, turns, txn, procs, wp, located, soup_pass, soup_in, soup_out, san_pass, san_texts, trees, call_urls, calls, img, url, valid, body, collected, doc, meta, container, site_tries>>

\* lines 1091-1094
FallbackGeneric ==
    /\ pc = "FALLBACK_GENERIC"
    /\ result' = _extract_with_trafilatura(doc)
    /\ pc' = "done"
    /\ UNCHANGED <<ai, pool, feeds, seen_articles, posts, wp_created, failures, turns, txn, procs, wp, located, soup_pass, soup_in, soup_out, san_pass, san_texts, trees, call_urls, calls, img, url, valid, body, collected, doc, meta, container, site_tries>>

(***************************************************************************)
(* Inputs of extract.  Every page ends with one block the pre-cleaner's    *)
(* deny-list removes (<div class="share">); before it stands at most one   *)
(* content block.                                                          *)
(***************************************************************************)

\* the largest number of <img> in the content block of a page
MaxPageImgs == 2

\* the largest number of <iframe> in the content block of a page
MaxIframes == 2

LanceBase == <<"h","t","t","p","s",":","/","/","w","w","w",".","l","a","n","c","e",".","c","o","m",".","b","r","/","n","/","1">>

GeBase == <<"h","t","t","p","s",":","/","/","g","e",".","g","l","o","b","o",".","c","o","m","/","n","/","1">>

Bases == {LanceBase, GeBase, OtherBase}

VIDEO_A == <<"d","Q","w","4","w","9","W","g","X","c","Q">>

VIDEO_B == <<"a","a","a","a","a","a","a","a","a","a","1">>

YtEmbed(id) == <<"h","t","t","p","s",":","/","/","w","w","w",".","y","o","u","t","u","b","e",".","c","o","m","/","e","m","b","e","d","/">> \o id

Og(content, at) == [content |-> content, at |-> at]

\* where an og:image tag stands: in <head>, or in the share block
InHead == 0

InShare(main) == Len(main) + 1

HeadOgs == {
    <<>>,
    <<Og(<<"h","t","t","p","s",":","/","/","a",".","c","o","/","i","/","p",".","j","p","g">>, InHead)>>,
    <<Og(<<"/","i","/","p",".","j","p","g">>, InHead)>>,
    <<Og(<<"h","t","t","p","s",":","/","/","A",".","c","o","/","i","/","p",".","j","p","g">>, InHead)>>,
    <<Og(<<"h","t","t","p","s",":","/","/","a",".","c","o","/","i","/","q","/">>, InHead)>>,
    <<Og(<<>>, InHead), Og(<<"h","t","t","p","s",":","/","/","a",".","c","o","/","i","/","p",".","j","p","g">>, InHead)>>}

ShareOgs(main) == {<<Og(<<"h","t","t","p","s",":","/","/","a",".","c","o","/","i","/","p",".","j","p","g">>, InShare(main))>>}

FirstPageImg == Img(<<"h","t","t","p","s",":","/","/","a",".","c","o","/","i","/","p",".","j","p","g">>, None, <<"8","0","0">>, <<"6","0","0">>, TRUE)

PageImgs == {
    FirstPageImg,
    Img(<<"h","t","t","p","s",":","/","/","a",".","c","o","/","i","/","q","/">>, None, <<"4","0","0">>, <<"3","0","0">>, FALSE),
    Img(None, <<"/","i","/","r",".","j","p","g">>, None, None, FALSE)}

StringImage(u) == [k |-> "string", url |-> u]

StringHeadline(s) == [k |-> "string", s |-> s]

LdChoices == {
    <<>>,
    <<LdScript("valid", "object",
               LdObject("NewsArticle", StringImage(<<"h","t","t","p","s",":","/","/","a",".","c","o","/","i","/","l","d",".","j","p","g">>),
                        StringHeadline(<<" ","H","e","a","d","l","i","n","e"," ">>), <<"L","e","a","d">>))>>,
    <<LdScript("valid", "graph",
               LdObject("Article", StringImage(<<"/","i","/","l","d",".","j","p","g">>), NoHeadline, None))>>,
    <<LdScript("trailing_comma", "object",
               LdObject("Article", [k |-> "object", url |-> <<"h","t","t","p","s",":","/","/","a",".","c","o","/","i","/","l","d",".","j","p","g">>],
                        StringHeadline(<<"H","e","a","d","l","i","n","e">>), None))>>,
    <<LdScript("valid", "string", EmptyObject)>>,
    <<LdScript("valid", "list",
               LdObject("WebPage", [k |-> "list", url |-> <<"/","i","/","s","i","t","e",".","j","p","g">>], NoHeadline, None)),
      LdScript("valid", "object",
               LdObject("BlogPosting", StringImage(<<"h","t","t","p","s",":","/","/","a",".","c","o","/","i","/","p",".","j","p","g">>),
                        [k |-> "list", s |-> <<"H","e","a","d","l","i","n","e">>], None))>>}

LdWithImage ==
    <<LdScript("valid", "object",
               LdObject("NewsArticle", StringImage(<<"h","t","t","p","s",":","/","/","a",".","c","o","/","i","/","l","d",".","j","p","g">>),
                        StringHeadline(<<" ","H","e","a","d","l","i","n","e"," ">>), <<"L","e","a","d">>))>>

\* the content block: none, an <article>, an <article> without <p>, or the
\* container of the ge.globo.com rule
MainBlocks(imgs, iframes) == {
    <<>>,
    <<Block("article", <<>>, 2, imgs, iframes)>>,
    <<Block("article", <<>>, 0, imgs, iframes)>>,
    <<Block("div", <<"m","a","t","e","r","i","a","-","c","o","n","t","e","u","d","o">>, 2, imgs, iframes)>>}

ShareBlock(iframes) == Block("div", <<"s","h","a","r","e">>, 0, <<>>, iframes)

BODY_HTML == <<"<","p",">","B","o","d","y","<","/","p",">">>

Page(base, ogs, og_title, title, desc, lds, main, share_iframes, yt_divs, traf) ==
    [base |-> base, ogs |-> ogs, og_title |-> og_title, title |-> title,
     desc |-> desc, og_desc |-> None, lds |-> lds,
     blocks |-> main \o <<ShareBlock(share_iframes)>>,
     yt_divs |-> yt_divs, traf |-> traf]

\* pages that differ in their images
ImageDocs ==
    {Page(base, ogs, <<"T","i","t","l","e">>, None, None, lds, main, <<>>, <<>>, BODY_HTML) :
        base \in Bases,
        ogs \in HeadOgs,
        lds \in {<<>>},
        main \in UNION {MainBlocks(imgs, <<>>) : imgs \in SeqsUpTo(PageImgs, MaxPageImgs)}}
    \cup
    {Page(base, ogs, <<"T","i","t","l","e">>, None, None, lds, main, <<>>, <<>>, BODY_HTML) :
        base \in Bases,
        ogs \in {<<>>, <<Og(<<"h","t","t","p","s",":","/","/","a",".","c","o","/","i","/","p",".","j","p","g">>, InHead)>>},
        lds \in LdChoices,
        main \in UNION {MainBlocks(imgs, <<>>) : imgs \in SeqsUpTo(PageImgs, MaxPageImgs)}}
    \cup
    UNION {{Page(base, ogs, <<"T","i","t","l","e">>, None, None, lds, main, <<>>, <<>>, BODY_HTML) :
                base \in Bases,
                ogs \in ShareOgs(main),
                lds \in {<<>>, LdWithImage}} :
           main \in UNION {MainBlocks(imgs, <<>>) : imgs \in SeqsUpTo(PageImgs, 1)}}

\* pages that differ in their titles
TitleDocs ==
    {Page(base, <<>>, og_title, title, desc, lds, main, <<>>, <<>>, traf) :
        base \in Bases,
        og_title \in {None, <<>>, <<" ","O","g"," ","T","i","t","l","e"," ">>},
        title \in {None, <<>>, <<"P","a","g","e"," ","T","i","t","l","e">>},
        desc \in {None, <<" ","D","e","s","c","r","i","p","t","i","o","n"," ">>},
        lds \in LdChoices,
        main \in MainBlocks(<<FirstPageImg>>, <<>>),
        traf \in {<<>>, BODY_HTML}}

IframeSrcs == {
    YtEmbed(VIDEO_A),
    <<"h","t","t","p","s",":","/","/","y","o","u","t","u",".","b","e","/">> \o VIDEO_A \o <<"?","t","=","1">>,
    <<"h","t","t","p","s",":","/","/","w","w","w",".","y","o","u","t","u","b","e",".","c","o","m","/","w","a","t","c","h","?","v","=">> \o VIDEO_B,
    <<"h","t","t","p","s",":","/","/","m","a","p","s",".","e","x","a","m","p","l","e",".","c","o","m","/","e","m","b","e","d","?","q","=","1">>}

\* pages that differ in their videos
VideoDocs ==
    {Page(base, ogs, <<"T","i","t","l","e">>, None, None, <<>>, main, share_iframes, yt_divs, BODY_HTML) :
        base \in Bases,
        ogs \in {<<>>, <<Og(<<"h","t","t","p","s",":","/","/","i",".","y","t","i","m","g",".","c","o","m","/","v","i","/">> \o VIDEO_B \o <<"/","h","q","d","e","f","a","u","l","t",".","j","p","g">>, InHead)>>},
        main \in UNION {{<<Block("article", <<>>, 2, <<FirstPageImg>>, iframes)>>,
                         <<Block("div", <<"m","a","t","e","r","i","a","-","c","o","n","t","e","u","d","o">>, 2, <<>>, iframes)>>} :
                        iframes \in SeqsUpTo(IframeSrcs, MaxIframes)},
        share_iframes \in {<<>>, <<YtEmbed(VIDEO_B)>>},
        yt_divs \in {<<>>, <<VIDEO_A>>, <<<<"p","l","a","y","e","r","-","1">>>>}}

\* a well-formed block whose headline holds a comma before a closing bracket
LdCommaInString ==
    <<LdScript("valid", "object",
               LdObject("Article", StringImage(<<"h","t","t","p","s",":","/","/","a",".","c","o","/","i","/","l","d",".","j","p","g">>),
                        StringHeadline(<<"C","o","t","a","s"," ","[","A",","," ","B",","," ","]"," ","s","o","b","e","m">>), <<"L","e","a","d">>))>>

\* pages that carry an og:description, with and without a meta description
\* and an Article object
ExcerptDocs ==
    {[Page(base, <<>>, <<"O","g"," ","T","i","t","l","e">>, <<"P","a","g","e"," ","T","i","t","l","e">>, desc, lds, main, <<>>, <<>>, BODY_HTML)
        EXCEPT !.og_desc = <<" ","O","g"," ","D","e","s","c","r","i","p","t","i","o","n"," ">>] :
        base \in Bases,
        desc \in {None, <<" ","D","e","s","c","r","i","p","t","i","o","n"," ">>},
        lds \in {<<>>, LdWithImage,
                 <<LdScript("valid", "graph",
                            LdObject("Article", StringImage(<<"/","i","/","l","d",".","j","p","g">>), NoHeadline, None))>>,
                 LdCommaInString},
        main \in MainBlocks(<<FirstPageImg>>, <<>>)}

Docs == ImageDocs \cup TitleDocs \cup VideoDocs \cup ExcerptDocs

Init ==
    /\ doc \in Docs
    /\ pc = "start"
    /\ meta = Idle
    /\ container = Idle
    /\ site_tries = 0
    /\ result = Idle
    /\ NoImageCall
    /\ NoCollectCall
    /\ NoRepeatCall
    /\ NoSanitizerCall
    /\ NoSoupPass
    /\ NoLocateCall
    /\ NoUploadCall
    /\ NoPipeline
    /\ NoPoolCall
    /\ NoRewriteCall

Next ==
    \/ Step1Metadata
    \/ Step1Raises
    \/ TryLance
    \/ TryGe
    \/ NoSiteRule
    \/ SiteReturns
    \/ SiteRaises
    \/ FallbackGeneric

Spec == Init /\ [][Next]_vars

(***************************************************************************)
(* Properties of ContentExtractor.extract                                  *)
(***************************************************************************)
Returns == pc = "done" /\ result.kind = "record"

\* the first og:image tag of the document whose content is not empty
FirstOgWithContent(p) ==
    p.ogs[Min({k \in 1..Len(p.ogs) : p.ogs[k].content # <<>>})]

CarriesOgImage(p) == \E k \in 1..Len(p.ogs) : p.ogs[k].content # <<>>

\* C1: for every document that carries an og:image tag with non-empty
\* content, the featured_image_url of the returned record is that content
\* resolved against the base URL, on the site-specific and on the generic path.
C1_OgImageWins ==
    (Returns /\ CarriesOgImage(doc))
        => result.featured_image_url = urljoin(doc.base, FirstOgWithContent(doc).content)

\* C2: extract ends by returning a record or None; no exception escapes it.
C2_NoExceptionEscapes == pc = "done" => result.kind \in {"record", "None"}

OnGenericPath == pc = "done" /\ container = NoContainer /\ meta # Idle

\* C3: on the generic path, when the body is found and the body-to-HTML step
\* yields content, a record is returned whatever the metadata and image
\* sub-steps find.
C3_PartialFailureNotFatal ==
    (OnGenericPath /\ ArticleBlocks(doc) # {} /\ doc.traf # <<>>)
        => result.kind = "record"

\* the cleaner registered for the host of the document
SiteCleaner(p) ==
    IF IsLance(p) THEN _clean_html_for_lance_definitivo(p) ELSE _clean_html_for_ge(p)

\* C4: for a registered host whose cleaner finds no container, extract
\* returns exactly what the generic path returns on the original HTML, and
\* the site rule has been tried once.
C4_FallbackIsGeneric ==
    (pc = "done" /\ (IsLance(doc) \/ IsGe(doc)) /\ SiteCleaner(doc) = NoContainer)
        => /\ result = _extract_with_trafilatura(doc)
           /\ site_tries = 1

\* the form of a URL under which letter case and trailing slashes do not count
SameImageKey(u) == Lower(RStripSlash(u))

\* C5: no entry of images is the featured image, letter case and trailing
\* slashes aside.
C5_FeaturedNotInImages ==
    (Returns /\ result.featured_image_url # None)
        => \A i \in 1..Len(result.images) :
              SameImageKey(result.images[i].url) # SameImageKey(result.featured_image_url)

\* C6: given an absolute base URL, every URL of a returned record is absolute.
C6_EveryURLAbsolute ==
    Returns =>
        /\ result.featured_image_url # None => IsAbsolute(result.featured_image_url)
        /\ \A i \in 1..Len(result.images) : IsAbsolute(result.images[i].url)
        /\ \A i \in 1..Len(result.videos) :
              IsAbsolute(result.videos[i].embed_url) /\ IsAbsolute(result.videos[i].watch_url)

\* the ids in the order the scans of a returned record met them: on the
\* site-specific path the container's, then the full page's; on the generic
\* path those of the pre-cleaned page
ScannedForResult ==
    IF result.content.by = "site"
    THEN ScannedIds(container.ogs, container.iframes, <<>>)
         \o ScannedIds(doc.ogs, PageIframes(doc), doc.yt_divs)
    ELSE LET p == _pre_clean_html(doc)
         IN  ScannedIds(p.ogs, PageIframes(p), p.yt_divs)

\* C7: the videos of a returned record hold each id once, in first-seen
\* order, each with its canonical embed and watch URL; one embed iframe
\* and nothing else to scan gives exactly one entry.
C7_VideosDedupedInOrder ==
    Returns =>
        LET vs == result.videos
            seen == ScannedForResult
        IN  /\ \A i, j \in 1..Len(vs) : i # j => vs[i].id # vs[j].id
            /\ {vs[i].id : i \in 1..Len(vs)} = {seen[k] : k \in 1..Len(seen)}
            /\ \A i, j \in 1..Len(vs) :
                  i < j => FirstSeen(seen, vs[i].id) < FirstSeen(seen, vs[j].id)
            /\ \A i \in 1..Len(vs) :
                  /\ vs[i].embed_url = <<"h","t","t","p","s",":","/","/","w","w","w",".","y","o","u","t","u","b","e",".","c","o","m","/","e","m","b","e","d","/">> \o vs[i].id
                  /\ vs[i].watch_url = <<"h","t","t","p","s",":","/","/","w","w","w",".","y","o","u","t","u","b","e",".","c","o","m","/","w","a","t","c","h","?","v","=">> \o vs[i].id
            /\ (PageIframes(doc) = <<YtEmbed(VIDEO_A)>> /\ doc.yt_divs = <<>>
                    /\ ~Denied(doc.blocks[1]))
                  => vs = <<[id |-> VIDEO_A,
                             embed_url |-> <<"h","t","t","p","s",":","/","/","w","w","w",".","y","o","u","t","u","b","e",".","c","o","m","/","e","m","b","e","d","/","d","Q","w","4","w","9","W","g","X","c","Q">>,
                             watch_url |-> <<"h","t","t","p","s",":","/","/","w","w","w",".","y","o","u","t","u","b","e",".","c","o","m","/","w","a","t","c","h","?","v","=","d","Q","w","4","w","9","W","g","X","c","Q">>]>>

\* the site-specific path has merged a container's videos with the page's,
\* and an id met more than once is listed once
C7_Witness ==
    /\ Returns
    /\ result.content.by = "site"
    /\ container.iframes # <<>>
    /\ Len(result.videos) = 2
    /\ Len(ScannedForResult) > 2

(***************************************************************************)
(* Deduplication in collect_images_from_article (lines 292-300, 344-351)   *)
(***************************************************************************)

\* the key under which the specification counts two URLs as the same image
NormalizedKey(u) == Lower(RStripSlash(u))

\* C11: the list returned by collect_images_from_article holds no two URLs
\* that are equal after lower-casing and removal of trailing slashes.
C11_NoDuplicateUpToCase ==
    collected.kind = "returned" =>
        \A i, j \in 1..Len(collected.list) :
            i # j => NormalizedKey(collected.list[i]) # NormalizedKey(collected.list[j])

(***************************************************************************)
(* collect_images_from_article called several times by one caller          *)
(* (lines 278-351).  The caller holds NTrees trees and calls the function  *)
(* on any of them, in any order.  Every call binds a new list to urls      *)
(* (line 290) and only reads the tree (select, find_all, find, get).       *)
(***************************************************************************)

\* the number of trees the caller holds
NTrees == 2

\* the largest number of calls of a behaviour
MaxCalls == 3

RepeatTrees ==
    {p \in CollectInputs : p.blocks = <<>> \/ Len(p.blocks[1].imgs) <= 1}

\* a list kept between the calls, which line 290 does not do
KeptList(previous) == previous

\* line 290: urls: list[str] = []
NewList(previous) == <<>>

\* the tree after a call on it: no line of the function writes to the tree
TreeAfterCall(tree) == tree

InitRepeat ==
    /\ trees \in [1..NTrees -> RepeatTrees]
    /\ call_urls = <<>>
    /\ calls = <<>>
    /\ NoImageCall
    /\ NoCollectCall
    /\ NoExtractCall
    /\ NoSanitizerCall
    /\ NoSoupPass
    /\ NoLocateCall
    /\ NoUploadCall
    /\ NoPipeline
    /\ NoPoolCall
    /\ NoRewriteCall

\* a call of collect_images_from_article(trees[d], base) that returns
RepeatReturns(d) ==
    /\ Len(calls) < MaxCalls
    /\ ~_find_article_body(trees[d]).raise
    /\ call_urls' = NewList(call_urls)
                \o PushedURLs(trees[d].blocks[_find_article_body(trees[d]).root].imgs,
                              trees[d].base)
    /\ trees' = [trees EXCEPT ![d] = TreeAfterCall(trees[d])]
    /\ calls' = Append(calls, [before |-> trees[d], after |-> trees'[d],
                               raised |-> FALSE, list |-> DedupAndOrder(call_urls')])
    /\ UNCHANGED <<ai, pool, feeds, seen_articles, posts, wp_created, failures, turns, txn, procs, wp, located, soup_pass, soup_in, soup_out, san_pass, san_texts, img, url, valid, body, collected, doc, pc, meta, container, site_tries, result>>

\* a call that raises at line 289, before urls is bound
RepeatRaises(d) ==
    /\ Len(calls) < MaxCalls
    /\ _find_article_body(trees[d]).raise
    /\ calls' = Append(calls, [before |-> trees[d], after |-> trees[d],
                               raised |-> TRUE, list |-> <<>>])
    /\ UNCHANGED <<ai, pool, feeds, seen_articles, posts, wp_created, failures, turns, txn, procs, wp, located, soup_pass, soup_in, soup_out, san_pass, san_texts, trees, call_urls, img, url, valid, body, collected, doc, pc, meta, container, site_tries, result>>

NextRepeat == \E d \in 1..NTrees : RepeatReturns(d) \/ RepeatRaises(d)

SpecRepeat == InitRepeat /\ [][NextRepeat]_vars

NL == <<"\n">>

\* s[i - 1 : i - 1 + len(k)] == k
HasAt(s, i, k) == i >= 1 /\ i + Len(k) - 1 <= Len(s) /\ SubSeq(s, i, i + Len(k) - 1) = k

\* [^<>\s]+ from position i: the position after the longest run
UrlRunEnd(s, i) ==
    Min({j \in i..(Len(s) + 1) : j = Len(s) + 1 \/ IsSpace(s[j]) \/ s[j] \in {"<", ">"}})

\* [a-z0-9\-_/] under re.IGNORECASE, on lower-cased text
IsSlugChar(c) == IsLowerCh(c) \/ IsDigit(c) \/ c \in {"-", "_", "/"}

\* /(?:tag|categoria)/[a-z0-9\-_/]+/? ending at the end e of the run that
\* starts at c, with at least one character of [^<>\s]+ before it
TaxonomyTail(s, c, e) ==
    \E k \in (c + 1)..(e - 1) : \E word \in {<<"/","t","a","g","/">>, <<"/","c","a","t","e","g","o","r","i","a","/">>} :
        /\ HasAt(s, k, word)
        /\ k + Len(word) <= e - 1
        /\ \A j \in (k + Len(word))..(e - 1) : IsSlugChar(s[j])

\* <p>\s*https?://[^<>\s]+/(?:tag|categoria)/[a-z0-9\-_/]+/?\s*</p> matched
\* at position i of the lower-cased text s: the position after the match, or 0
NakedLinkMatchEnd(s, i) ==
    IF ~HasAt(s, i, <<"<","p",">">>) THEN 0
    ELSE Bind(SkipSpace(s, i + 3), LAMBDA a :
         Bind(IF HasAt(s, a, <<"h","t","t","p","s",":","/","/">>) THEN a + 8
              ELSE IF HasAt(s, a, <<"h","t","t","p",":","/","/">>) THEN a + 7 ELSE 0, LAMBDA c :
            IF c = 0 THEN 0
            ELSE Bind(UrlRunEnd(s, c), LAMBDA e :
                    IF ~TaxonomyTail(s, c, e) THEN 0
                    ELSE Bind(SkipSpace(s, e), LAMBDA f :
                            IF HasAt(s, f, <<"<","/","p",">">>) THEN f + 4 ELSE 0))))

\* ^\s*(\[?Imagem[^\n<]*\]?)\s*$ with re.MULTILINE matched at position i of
\* the lower-cased text s: the position after the match, or 0.  [^\n<]* runs
\* to the end of the line or to a "<"; \s*$ then takes the whitespace up to
\* the last line end it can stop in front of.
PlaceholderMatchEnd(s, i) ==
    IF ~(i = 1 \/ s[i - 1] = "\n") THEN 0
    ELSE Bind(SkipSpace(s, i), LAMBDA a :
         Bind(IF HasAt(s, a, <<"[">>) THEN a + 1 ELSE a, LAMBDA b :
            IF ~HasAt(s, b, <<"i","m","a","g","e","m">>) THEN 0
            ELSE Bind(Min({j \in (b + 6)..(Len(s) + 1) :
                            j = Len(s) + 1 \/ s[j] \in {"\n", "<"}}), LAMBDA d :
                    IF d = Len(s) + 1 THEN d
                    ELSE IF s[d] = "<" THEN 0
                    ELSE Bind(SkipSpace(s, d), LAMBDA w :
                            IF w = Len(s) + 1 THEN w
                            ELSE Max({y \in d..(w - 1) : s[y] = "\n"})))))

\* re.sub(pattern, '', html): the text without its matches, found from left
\* to right, each search starting where the last match ended
ReSubNakedLink(html) ==
    LET RECURSIVE Go(_)
        Go(i) ==
            IF i > Len(html) THEN <<>>
            ELSE Bind(NakedLinkMatchEnd(Lower(html), i), LAMBDA e :
                    IF e > 0 THEN Go(e) ELSE <<html[i]>> \o Go(i + 1))
    IN  Go(1)

ReSubPlaceholder(html) ==
    LET RECURSIVE Go(_)
        Go(i) ==
            IF i > Len(html) THEN <<>>
            ELSE Bind(PlaceholderMatchEnd(Lower(html), i), LAMBDA e :
                    IF e > 0 THEN Go(e) ELSE <<html[i]>> \o Go(i + 1))
    IN  Go(1)

\* remove_broken_image_placeholders (lines 285-300)
remove_broken_image_placeholders(html) ==
    IF Falsy(html) \/ ~Contains(html, <<"I","m","a","g","e","m">>) THEN html
    ELSE ReSubPlaceholder(html)

\* strip_naked_internal_links (lines 303-316)
strip_naked_internal_links(html) ==
    IF Falsy(html) \/ (~Contains(html, <<"/","t","a","g","/">>) /\ ~Contains(html, <<"/","c","a","t","e","g","o","r","i","a","/">>))
    THEN html
    ELSE ReSubNakedLink(html)

\* the largest number of pieces an input text is made of
MaxPieces == 4

LinkPieces ==
    {<<"<","p",">">>, <<"<","/","p",">">>, <<"h","t","t","p",":","/","/","a",".","c","o","/","t","a","g","/","x">>, <<"<","p",">"," ","h","t","t","p","s",":","/","/","a",".","c","o","/","c","a","t","e","g","o","r","i","a","/","y","/"," ","<","/","p",">">>,
     <<"<","p",">","L","e","i","a"," ","h","t","t","p",":","/","/","a",".","c","o","/","t","a","g","/","z","<","/","p",">">>}

PlaceholderPieces ==
    {<<"[","I","m","a","g","e","m"," ","D","e","s","t","a","c","a","d","a","]">>, <<" ","i","m","a","g","e","m"," ","x">>, <<"I","m","a","g","e","m"," ","1","<","b","r",">">>, <<"T","e","x","t","o">>, NL}

RECURSIVE Concat(_)
Concat(pieces) ==
    IF pieces = <<>> THEN <<>> ELSE Head(pieces) \o Concat(Tail(pieces))

SanitizerInputs(pieces) == {Concat(ps) : ps \in SeqsUpTo(pieces, MaxPieces)}

SanitizerCalls ==
    {[pass |-> "strip_naked_internal_links", html |-> h] :
        h \in SanitizerInputs(LinkPieces)}
    \cup {[pass |-> "remove_broken_image_placeholders", html |-> h] :
        h \in SanitizerInputs(PlaceholderPieces)}

InitSanitizer ==
    /\ \E c \in SanitizerCalls : san_pass = c.pass /\ san_texts = <<c.html>>
    /\ NoImageCall
    /\ NoCollectCall
    /\ NoExtractCall
    /\ NoRepeatCall
    /\ NoSoupPass
    /\ NoLocateCall
    /\ NoUploadCall
    /\ NoPipeline
    /\ NoPoolCall
    /\ NoRewriteCall

\* html = strip_naked_internal_links(html), at most twice
StripNakedLinks ==
    /\ san_pass = "strip_naked_internal_links"
    /\ Len(san_texts) < 3
    /\ san_texts' = Append(san_texts, strip_naked_internal_links(san_texts[Len(san_texts)]))
    /\ UNCHANGED <<ai, pool, feeds, seen_articles, posts, wp_created, failures, turns, txn, procs, wp, located, soup_pass, soup_in, soup_out, san_pass, trees, call_urls, calls, img, url, valid, body, collected, doc, pc, meta, container, site_tries, result>>

\* html = remove_broken_image_placeholders(html), at most twice
RemovePlaceholders ==
    /\ san_pass = "remove_broken_image_placeholders"
    /\ Len(san_texts) < 3
    /\ san_texts' = Append(san_texts, remove_broken_image_placeholders(san_texts[Len(san_texts)]))
    /\ UNCHANGED <<ai, pool, feeds, seen_articles, posts, wp_created, failures, turns, txn, procs, wp, located, soup_pass, soup_in, soup_out, san_pass, trees, call_urls, calls, img, url, valid, body, collected, doc, pc, meta, container, site_tries, result>>

NextSanitizer == StripNakedLinks \/ RemovePlaceholders

SpecSanitizer == InitSanitizer /\ [][NextSanitizer]_vars

\* C13: each sanitizer pass is idempotent, f(f(h)) = f(h) for every HTML
\* input h: removing one match never produces text that a second
\* application would remove.
C13_PassesIdempotent ==
    Len(san_texts) = 3 => san_texts[3] = san_texts[2]

\* the same for the placeholder pass alone
PlaceholderPassIdempotent ==
    (san_pass = "remove_broken_image_placeholders" /\ Len(san_texts) = 3)
        => san_texts[3] = san_texts[2]

(***************************************************************************)
(* The tree passes of src/app/html_utils.py:                               *)
(* strip_credits_and_normalize_youtube (lines 44-97) and                   *)
(* hard_filter_forbidden_html (lines 100-152).  The tree BeautifulSoup     *)
(* parses is the sequence of the nodes of <body>; a node has a tag, the    *)
(* text that stands in it before its child elements, its src attribute     *)
(* (None when absent), the names of its other attributes, and its child    *)
(* elements.  A pass is the composition of its loops, each of which visits *)
(* the elements in document order, an element before its descendants.      *)
(***************************************************************************)

Node(tag, text, src, attrs, kids) ==
    [tag |-> tag, text |-> text, src |-> src, attrs |-> attrs, kids |-> kids]

\* the elements of a forest in document order (find_all(True))
RECURSIVE NodesIn(_)
NodesIn(ns) ==
    IF ns = <<>> THEN <<>>
    ELSE <<Head(ns)>> \o NodesIn(Head(ns).kids) \o NodesIn(Tail(ns))

TagsIn(ns) == {NodesIn(ns)[i].tag : i \in 1..Len(NodesIn(ns))}

\* the strings of a forest, joined
RECURSIVE TextOf(_)
TextOf(ns) ==
    IF ns = <<>> THEN <<>>
    ELSE Head(ns).text \o TextOf(Head(ns).kids) \o TextOf(Tail(ns))

\* node.get_text()
get_text(n) == TextOf(<<n>>)

\* not node.get_text(strip=True)
NoText(n) == \A i \in 1..Len(get_text(n)) : get_text(n)[i] = " "

\* lines 14-16
YOUTUBE_HOSTS ==
    {<<"y","o","u","t","u","b","e",".","c","o","m">>, <<"w","w","w",".","y","o","u","t","u","b","e",".","c","o","m">>, <<"m",".","y","o","u","t","u","b","e",".","c","o","m">>, <<"y","o","u","t","u",".","b","e">>, <<"w","w","w",".","y","o","u","t","u",".","b","e">>}

\* s.lstrip("/")
LStripSlash(s) ==
    Bind({i \in 1..Len(s) : s[i] # "/"}, LAMBDA kept :
        IF kept = {} THEN <<>> ELSE From(s, Min(kept)))

\* _yt_id_from_url (lines 18-41): the id, "" or None
_yt_id_from_url(u) ==
    IF Falsy(u) THEN None
    ELSE Bind(url_hostname(u), LAMBDA host :
         Bind(url_path(u), LAMBDA path :
            IF host \notin YOUTUBE_HOSTS THEN None
            ELSE IF StartsWith(path, <<"/","e","m","b","e","d","/">>) \/ StartsWith(path, <<"/","s","h","o","r","t","s","/">>)
                 THEN Before(Split(path, <<"/">>)[3], <<"?">>)
            ELSE IF EndsWith(host, <<"y","o","u","t","u",".","b","e">>) THEN Before(LStripSlash(path), <<"?">>)
            ELSE IF path = <<"/","w","a","t","c","h">>
                 THEN Bind(parse_qs_get(url_query(u), <<"v">>), LAMBDA v :
                        IF v = <<>> THEN None ELSE v[1])
            ELSE None))

\* lines 59-60: the prefixes of a credit line
CREDIT_PREFIXES == {<<"c","r","é","d","i","t","o",":">>, <<"c","r","e","d","i","t","o",":">>, <<"f","o","n","t","e",":">>}

\* lines 58-60: a figcaption, p or span whose text starts with a credit label
IsCreditNode(n) ==
    /\ n.tag \in {"figcaption", "p", "span"}
    /\ \E k \in CREDIT_PREFIXES : StartsWith(Lower(Strip(get_text(n))), k)

\* lines 57-61
RECURSIVE RemoveCredits(_)
RemoveCredits(ns) ==
    IF ns = <<>> THEN <<>>
    ELSE (IF IsCreditNode(Head(ns)) THEN <<>>
          ELSE <<[Head(ns) EXCEPT !.kids = RemoveCredits(@)]>>)
         \o RemoveCredits(Tail(ns))

\* lines 73-75: p = soup.new_tag("p"); p.string = watch URL
WatchURL(vid) == <<"h","t","t","p","s",":","/","/","w","w","w",".","y","o","u","t","u","b","e",".","c","o","m","/","w","a","t","c","h","?","v","=">> \o vid

WatchParagraph(vid) == Node("p", WatchURL(vid), None, {}, <<>>)

\* lines 65-79 (and 122-133): what stands in the place of an iframe
IframeReplacement(n) ==
    Bind(IF n.src = None THEN <<>> ELSE Strip(n.src), LAMBDA src :
        IF src = <<>> \/ Contains(src, <<"U","R","L","_","D","O","_","E","M","B","E","D","_","A","Q","U","I">>) THEN <<>>
        ELSE Bind(_yt_id_from_url(src), LAMBDA vid :
                IF Falsy(vid) THEN <<>> ELSE <<WatchParagraph(vid)>>))

\* lines 64-79 (and 122-133)
RECURSIVE NormalizeIframes(_)
NormalizeIframes(ns) ==
    IF ns = <<>> THEN <<>>
    ELSE (IF Head(ns).tag = "iframe" THEN IframeReplacement(Head(ns))
          ELSE <<[Head(ns) EXCEPT !.kids = NormalizeIframes(@)]>>)
         \o NormalizeIframes(Tail(ns))

\* line 87: the figure's only child element is a <p>
OnlyP(fig) == Len(fig.kids) = 1 /\ fig.kids[1].tag = "p"

\* line 90: the text of that <p> holds a watch URL
HoldsWatchURL(p) ==
    Bind(Strip(get_text(p)), LAMBDA p_text :
        Contains(p_text, <<"y","o","u","t","u","b","e",".","c","o","m","/","w","a","t","c","h">>) \/ Contains(p_text, <<"y","o","u","t","u",".","b","e","/">>))

\* lines 82-93
RECURSIVE UnwrapFigures(_)
UnwrapFigures(ns) ==
    IF ns = <<>> THEN <<>>
    ELSE Bind(Head(ns), LAMBDA n :
            IF n.tag = "figure" /\ "img" \notin TagsIn(n.kids)
            THEN IF OnlyP(n) /\ HoldsWatchURL(n.kids[1]) THEN UnwrapFigures(n.kids)
                 ELSE IF NoText(n) THEN UnwrapFigures(n.kids)
                 ELSE <<[n EXCEPT !.kids = UnwrapFigures(@)]>>
            ELSE <<[n EXCEPT !.kids = UnwrapFigures(@)]>>)
         \o UnwrapFigures(Tail(ns))

\* the loop of lines 96-98 (and 147-150) left out
KeepParagraphs(ns) == ns

\* lines 96-98 (and 147-150): <p> without text and without child elements
RECURSIVE DropEmptyParagraphs(_)
DropEmptyParagraphs(ns) ==
    IF ns = <<>> THEN <<>>
    ELSE (IF Head(ns).tag = "p" /\ NoText(Head(ns)) /\ Head(ns).kids = <<>> THEN <<>>
          ELSE <<[Head(ns) EXCEPT !.kids = DropEmptyParagraphs(@)]>>)
         \o DropEmptyParagraphs(Tail(ns))

\* strip_credits_and_normalize_youtube (lines 44-97), from the parsed tree
\* to the tree that is written out
strip_credits_and_normalize_youtube(ns) ==
    IF ns = <<>> THEN ns
    ELSE DropEmptyParagraphs(UnwrapFigures(NormalizeIframes(RemoveCredits(ns))))

\* lines 115-118
REMOVE_TAGS ==
    {"script", "style", "noscript", "form", "input", "button", "select", "option",
     "textarea", "object", "embed", "svg", "canvas", "link", "meta"}

\* lines 119-121
RECURSIVE RemoveTags(_)
RemoveTags(ns) ==
    IF ns = <<>> THEN <<>>
    ELSE (IF Head(ns).tag \in REMOVE_TAGS THEN <<>>
          ELSE <<[Head(ns) EXCEPT !.kids = RemoveTags(@)]>>)
         \o RemoveTags(Tail(ns))

\* lines 136-144: no on* attribute, no src that starts with javascript:
\* (the nodes of the model carry no href)
SafeAttributes(n) ==
    [n EXCEPT !.attrs = {a \in @ : ~StartsWith(Lower(a), <<"o","n">>)},
              !.src = IF @ # None /\ StartsWith(Lower(Strip(@)), <<"j","a","v","a","s","c","r","i","p","t",":">>)
                      THEN None ELSE @]

RECURSIVE StripAttributes(_)
StripAttributes(ns) ==
    IF ns = <<>> THEN <<>>
    ELSE <<[SafeAttributes(Head(ns)) EXCEPT !.kids = StripAttributes(@)]>>
         \o StripAttributes(Tail(ns))

\* hard_filter_forbidden_html (lines 100-152), from the parsed tree to the
\* tree that is written out
hard_filter_forbidden_html(ns) ==
    IF ns = <<>> THEN ns
    ELSE DropEmptyParagraphs(StripAttributes(NormalizeIframes(RemoveTags(ns))))

\* the largest number of nodes in <body>
MaxNodes == 2

Text(tag, text) == Node(tag, text, None, {}, <<>>)

Iframe(src) == Node("iframe", <<>>, src, {}, <<>>)

Wrap(tag, text, kids) == Node(tag, text, None, {}, kids)

VIMEO == <<"h","t","t","p","s",":","/","/","p","l","a","y","e","r",".","v","i","m","e","o",".","c","o","m","/","v","i","d","e","o","/","1">>

IframeChoices ==
    {YtEmbed(VIDEO_A), <<"h","t","t","p","s",":","/","/","y","o","u","t","u",".","b","e","/">> \o VIDEO_B, VIMEO, <<>>,
     <<"h","t","t","p","s",":","/","/","w","w","w",".","y","o","u","t","u","b","e",".","c","o","m","/","e","m","b","e","d","/">>, <<"h","t","t","p","s",":","/","/","w","w","w",".","y","o","u","t","u","b","e",".","c","o","m","/","e","m","b","e","d","/","U","R","L","_","D","O","_","E","M","B","E","D","_","A","Q","U","I">>}

NodeChoices ==
    {Iframe(src) : src \in IframeChoices}
    \cup {Text("p", <<"T","e","x","t","o">>), Text("p", <<" ">>), Text("p", <<"F","o","n","t","e",":"," ","X">>),
          Wrap("p", <<>>, <<Iframe(YtEmbed(VIDEO_A))>>),
          Wrap("p", <<"F","o","n","t","e",":"," ">>, <<Iframe(YtEmbed(VIDEO_A))>>),
          Wrap("figure", <<>>, <<Iframe(YtEmbed(VIDEO_A))>>),
          Wrap("figure", <<>>, <<Iframe(VIMEO)>>),
          Wrap("figure", <<>>, <<Iframe(YtEmbed(VIDEO_A)), Text("figcaption", <<"C","r","e","d","i","t","o",":"," ","Y">>)>>),
          Wrap("figure", <<>>, <<Node("img", <<>>, <<"j","a","v","a","s","c","r","i","p","t",":","x">>, {<<"o","n","c","l","i","c","k">>, <<"a","l","t">>}, <<>>),
                                 Text("figcaption", <<"L","e","g","e","n","d","a">>)>>),
          Wrap("noscript", <<>>, <<Iframe(YtEmbed(VIDEO_B))>>),
          Wrap("div", <<>>, <<Text("p", <<>>), Text("script", <<"x">>)>>)}

InitSoup ==
    /\ soup_pass \in {"strip_credits_and_normalize_youtube", "hard_filter_forbidden_html"}
    /\ soup_in \in SeqsUpTo(NodeChoices, MaxNodes)
    /\ soup_out = [kind |-> "pending"]
    /\ NoImageCall
    /\ NoCollectCall
    /\ NoExtractCall
    /\ NoRepeatCall
    /\ NoSanitizerCall
    /\ NoLocateCall
    /\ NoUploadCall
    /\ NoPipeline
    /\ NoPoolCall
    /\ NoRewriteCall

\* a call of strip_credits_and_normalize_youtube(html)
StripCredits ==
    /\ soup_pass = "strip_credits_and_normalize_youtube"
    /\ soup_out.kind = "pending"
    /\ soup_out' = [kind |-> "returned", nodes |-> strip_credits_and_normalize_youtube(soup_in)]
    /\ UNCHANGED <<ai, pool, feeds, seen_articles, posts, wp_created, failures, turns, txn, procs, wp, located, soup_pass, soup_in, san_pass, san_texts, trees, call_urls, calls, img, url, valid, body, collected, doc, pc, meta, container, site_tries, result>>

\* a call of hard_filter_forbidden_html(html)
HardFilter ==
    /\ soup_pass = "hard_filter_forbidden_html"
    /\ soup_out.kind = "pending"
    /\ soup_out' = [kind |-> "returned", nodes |-> hard_filter_forbidden_html(soup_in)]
    /\ UNCHANGED <<ai, pool, feeds, seen_articles, posts, wp_created, failures, turns, txn, procs, wp, located, soup_pass, soup_in, san_pass, san_texts, trees, call_urls, calls, img, url, valid, body, collected, doc, pc, meta, container, site_tries, result>>

NextSoup == StripCredits \/ HardFilter

SpecSoup == InitSoup /\ [][NextSoup]_vars

\* the id of an iframe whose src is a YouTube URL with an extractable id
\* ("" for any other element)
YouTubeIdOf(n) ==
    IF n.tag = "iframe" /\ n.src # None /\ ~Falsy(_yt_id_from_url(Strip(n.src)))
    THEN _yt_id_from_url(Strip(n.src)) ELSE <<>>

\* the watch URLs that stand for the YouTube iframes among nodes, in order
WatchURLsFor(nodes) ==
    FlatMap(nodes, LAMBDA n : IF YouTubeIdOf(n) = <<>> THEN <<>> ELSE <<WatchURL(YouTubeIdOf(n))>>)

\* the texts of the paragraphs of a forest that hold nothing but a watch URL
WatchParagraphsIn(ns) ==
    FlatMap(NodesIn(ns), LAMBDA n :
        IF n.tag = "p" /\ n.kids = <<>> /\ StartsWith(n.text, WatchURL(<<>>))
        THEN <<n.text>> ELSE <<>>)

NoIframeLeft(ns) == "iframe" \notin TagsIn(ns)

NoEmptyParagraphLeft(ns) ==
    \A i \in 1..Len(NodesIn(ns)) :
        ~(NodesIn(ns)[i].tag = "p" /\ NoText(NodesIn(ns)[i]) /\ NodesIn(ns)[i].kids = <<>>)

RemovedFirst(n) ==
    IF soup_pass = "hard_filter_forbidden_html" THEN n.tag \in REMOVE_TAGS
    ELSE IsCreditNode(n)

\* the elements of a forest that are not inside an element removed first
RECURSIVE Surviving(_)
Surviving(ns) ==
    IF ns = <<>> THEN <<>>
    ELSE (IF RemovedFirst(Head(ns)) THEN <<>>
          ELSE <<Head(ns)>> \o Surviving(Head(ns).kids))
         \o Surviving(Tail(ns))

\* an iframe whose src holds the placeholder URL_DO_EMBED_AQUI
IsPlaceholder(n) == n.tag = "iframe" /\ n.src # None /\ Contains(n.src, <<"U","R","L","_","D","O","_","E","M","B","E","D","_","A","Q","U","I">>)

FORBIDDEN_TEXT_EXACT == {<<"Y","o","u","r"," ","c","o","m","m","e","n","t"," ","h","a","s"," ","n","o","t"," ","b","e","e","n"," ","s","a","v","e","d">>}

\* lines 131-134
FORBIDDEN_LABELS ==
    {<<"R","e","l","e","a","s","e"," ","D","a","t","e">>, <<"R","u","n","t","i","m","e">>, <<"D","i","r","e","c","t","o","r">>, <<"D","i","r","e","c","t","o","r","s">>, <<"W","r","i","t","e","r">>, <<"W","r","i","t","e","r","s">>,
     <<"P","r","o","d","u","c","e","r">>, <<"P","r","o","d","u","c","e","r","s">>, <<"C","a","s","t">>}

\* lines 635-641: the parent of a string that is a forbidden text
RECURSIVE RemoveExactText(_)
RemoveExactText(ns) ==
    IF ns = <<>> THEN <<>>
    ELSE (IF Strip(Head(ns).text) \in FORBIDDEN_TEXT_EXACT THEN <<>>
          ELSE <<[Head(ns) EXCEPT !.kids = RemoveExactText(@)]>>)
         \o RemoveExactText(Tail(ns))

\* tag.get_text(separator="\n"): the strings of the element, joined by "\n"
RECURSIVE JoinLines(_)
JoinLines(strings) ==
    IF strings = <<>> THEN <<>>
    ELSE IF Len(strings) = 1 THEN strings[1]
    ELSE strings[1] \o NL \o JoinLines(Tail(strings))

LinesOf(n) ==
    JoinLines(FlatMap(NodesIn(<<n>>), LAMBDA d : IF d.text = <<>> THEN <<>> ELSE <<d.text>>))

\* " ".join(s.split()): every run of whitespace becomes one space, none is
\* left at the ends
CollapseSpace(s) ==
    Bind(SelectAt(s, LAMBDA i :
            \/ ~IsSpace(s[i])
            \/ /\ i > 1 /\ ~IsSpace(s[i - 1])
               /\ \E j \in (i + 1)..Len(s) : ~IsSpace(s[j])), LAMBDA kept :
        [i \in 1..Len(kept) |-> IF IsSpace(kept[i]) THEN " " ELSE kept[i]])

\* re.search(rf"(^|\n)\s*{re.escape(lbl)}\s*(\n|$|:)", text, flags=re.I)
LabelFound(text, lbl) ==
    Bind(Lower(text), LAMBDA s :
    Bind(Lower(lbl), LAMBDA l :
        \E i \in 1..Len(s) :
            /\ i = 1 \/ s[i - 1] = "\n"
            /\ \E a \in i..SkipSpace(s, i) :
                /\ HasAt(s, a, l)
                /\ \E c \in (a + Len(l))..SkipSpace(s, a + Len(l)) :
                      c = Len(s) + 1 \/ s[c] \in {"\n", ":"}))

\* line 645: the text the labels are searched in
SearchedText(n) == CollapseSpace(LinesOf(n))

\* lines 646-647: lbl_count
lbl_count(n) == Cardinality({lbl \in FORBIDDEN_LABELS : LabelFound(SearchedText(n), lbl)})

CONTAINER_TAGS == {"div", "section", "aside", "ul", "ol"}

\* lines 643-649: candidates
Candidates(ns) ==
    SelectAt(NodesIn(ns), LAMBDA i :
        NodesIn(ns)[i].tag \in CONTAINER_TAGS /\ lbl_count(NodesIn(ns)[i]) >= 2)

\* lines 650-654
RECURSIVE RemoveInfoboxes(_)
RemoveInfoboxes(ns) ==
    IF ns = <<>> THEN <<>>
    ELSE (IF Head(ns).tag \in CONTAINER_TAGS /\ lbl_count(Head(ns)) >= 2 THEN <<>>
          ELSE <<[Head(ns) EXCEPT !.kids = RemoveInfoboxes(@)]>>)
         \o RemoveInfoboxes(Tail(ns))

\* s.rstrip(':')
RStripColon(s) ==
    Bind({i \in 1..Len(s) : s[i] # ":"}, LAMBDA kept :
        IF kept = {} THEN <<>> ELSE SubSeq(s, 1, Max(kept)))

\* lines 656-664: a p, li, span, h3 or h4 that is a label or a forbidden text
IsLabelTag(n) ==
    /\ n.tag \in {"p", "li", "span", "h3", "h4"}
    /\ Strip(RStripColon(Strip(get_text(n)))) \in FORBIDDEN_TEXT_EXACT \cup FORBIDDEN_LABELS

RECURSIVE RemoveLabelTags(_)
RemoveLabelTags(ns) ==
    IF ns = <<>> THEN <<>>
    ELSE (IF IsLabelTag(Head(ns)) THEN <<>>
          ELSE <<[Head(ns) EXCEPT !.kids = RemoveLabelTags(@)]>>)
         \o RemoveLabelTags(Tail(ns))

\* _remove_forbidden_blocks (lines 633-664)
_remove_forbidden_blocks(ns) ==
    RemoveLabelTags(RemoveInfoboxes(RemoveExactText(ns)))

InfoboxChoices ==
    {Text("p", <<"T","e","x","t","o">>),
     Text("span", <<"R","u","n","t","i","m","e",":">>),
     Text("div", <<"Y","o","u","r"," ","c","o","m","m","e","n","t"," ","h","a","s"," ","n","o","t"," ","b","e","e","n"," ","s","a","v","e","d">>),
     Wrap("div", <<>>, <<Text("span", <<"R","e","l","e","a","s","e"," ","D","a","t","e">>), Text("span", <<"2","0","2","4">>),
                         Text("span", <<"R","u","n","t","i","m","e">>), Text("span", <<"2","h">>)>>),
     Wrap("ul", <<>>, <<Text("li", <<"R","e","l","e","a","s","e"," ","D","a","t","e",":"," ","2","0","2","4">>), Text("li", <<"C","a","s","t",":"," ","A">>)>>),
     Wrap("section", <<>>, <<Text("p", <<"C","a","s","t",":"," ","A">>), Text("p", <<"T","e","x","t","o">>)>>),
     Wrap("aside", <<"R","u","n","t","i","m","e",":"," ","2","h">>, <<Text("p", <<"c","a","s","t">>)>>),
     Wrap("div", <<>>, <<Text("p", <<"T","h","e"," ","C","a","s","t"," ","o","f"," ","A">>), Text("p", <<"R","u","n","t","i","m","e"," ","w","a","s"," ","2","h">>)>>),
     Wrap("ol", <<>>, <<Text("li", <<"T","e","x","t","o">>)>>)}

InitForbidden ==
    /\ soup_pass = "_remove_forbidden_blocks"
    /\ soup_in \in SeqsUpTo(InfoboxChoices, MaxNodes)
    /\ soup_out = [kind |-> "pending"]
    /\ NoImageCall
    /\ NoCollectCall
    /\ NoExtractCall
    /\ NoRepeatCall
    /\ NoSanitizerCall
    /\ NoLocateCall
    /\ NoUploadCall
    /\ NoPipeline
    /\ NoPoolCall
    /\ NoRewriteCall

\* a call of self._remove_forbidden_blocks(article_soup)
RemoveForbiddenBlocks ==
    /\ soup_pass = "_remove_forbidden_blocks"
    /\ soup_out.kind = "pending"
    /\ soup_out' = [kind |-> "returned",
                    candidates |-> Candidates(RemoveExactText(soup_in)),
                    nodes |-> _remove_forbidden_blocks(soup_in)]
    /\ UNCHANGED <<ai, pool, feeds, seen_articles, posts, wp_created, failures, turns, txn, procs, wp, located, soup_pass, soup_in, san_pass, san_texts, trees, call_urls, calls, img, url, valid, body, collected, doc, pc, meta, container, site_tries, result>>

NextForbidden == RemoveForbiddenBlocks

SpecForbidden == InitForbidden /\ [][NextForbidden]_vars

\* the labels that stand in the text of an element on a line of their own
\* or followed by a colon
LabelsStanding(n) == {lbl \in FORBIDDEN_LABELS : LabelFound(LinesOf(n), lbl)}

\* the containers the infobox rule is stated to remove
Infoboxes(ns) ==
    SelectAt(NodesIn(ns), LAMBDA i :
        /\ NodesIn(ns)[i].tag \in CONTAINER_TAGS
        /\ Cardinality(LabelsStanding(NodesIn(ns)[i])) >= 2)

\* C15: _remove_forbidden_blocks removes every div, section, aside, ul or
\* ol whose text holds at least two distinct labels of the label set, each
\* on a line of its own or followed by a colon, and by this rule removes no
\* container with fewer than two such labels.
C15_InfoboxesRemoved ==
    soup_out.kind = "returned" =>
        soup_out.candidates = Infoboxes(RemoveExactText(soup_in))

\* the infobox rule removes nothing, whatever the tree
InfoboxRuleNeverFires ==
    soup_out.kind = "returned" => soup_out.candidates = <<>>

(***************************************************************************)
(* _find_article_body (lines 241-276) called on trees with several blocks. *)
(* The call returns the first <article> (lines 250-252) or raises in       *)
(* soup.select (line 257).  The scoring of lines 262-276, which no call     *)
(* reaches, is written down as operators on the blocks of the tree.        *)
(***************************************************************************)

\* lines 258-260: the classes the selector list names outside an <article>
BODY_SELECTOR_CLASSES ==
    {<<"p","o","s","t","-","c","o","n","t","e","n","t">>, <<"s","i","n","g","l","e","-","c","o","n","t","e","n","t">>, <<"p","o","s","t","-","b","o","d","y">>, <<"a","r","t","i","c","l","e","-","b","o","d","y">>, <<"a","r","t","i","c","l","e","-","c","o","n","t","e","n","t">>}

\* lines 143-151: the alternatives of _BAD_SECTION_RX
BAD_SECTION_WORDS ==
    {<<"r","e","l","a","t","e","d">>, <<"t","r","e","n","d","i","n","g">>, <<"m","o","r","e">>, <<"s","i","d","e","b","a","r">>, <<"a","s","i","d","e">>, <<"r","e","c","o","m","m","e","n","d">>, <<"r","e","c","o","m","m","e","n","d","e","d">>,
     <<"g","a","l","l","e","r","y">>, <<"c","a","r","o","u","s","e","l">>, <<"s","l","i","d","e","s","h","o","w">>, <<"v","i","d","e","o">>, <<"p","l","a","y","l","i","s","t">>, <<"s","o","c","i","a","l">>, <<"s","h","a","r","e">>,
     <<"f","o","o","t","e","r">>, <<"h","e","a","d","e","r">>, <<"n","a","v">>, <<"s","u","b","s","c","r","i","b","e">>, <<"n","e","w","s","l","e","t","t","e","r">>, <<"a","d">>, <<"a","d","v","e","r","t">>, <<"s","p","o","n","s","o","r">>,
     <<"c","t","a">>, <<"b","a","n","n","e","r">>, <<"p","a","i","d">>, <<"o","u","t","b","r","a","i","n">>, <<"t","a","b","o","o","l","a">>,
     <<"s","c","r","e","e","n","-","h","u","b">>, <<"s","c","r","e","e","n","h","u","b">>, <<"h","u","b">>, <<"m","o","s","t","-","p","o","p","u","l","a","r">>, <<"p","o","p","u","l","a","r">>}

\* lines 264-269: a candidate the loop passes over
Excluded(b) ==
    \/ \E w \in BAD_SECTION_WORDS : Contains(Lower(b.cls \o <<" ">>), w)
    \/ b.tag \in {"header", "footer", "nav", "aside"}

\* line 270: score
Score(b) == b.ps + Cardinality({i \in 1..Len(b.imgs) : b.imgs[i].figure})

\* lines 257-262: the blocks the selector list names, or else every block
CandidatesOf(p) ==
    Bind({i \in 1..Len(p.blocks) :
            p.blocks[i].tag # "article" /\ p.blocks[i].cls \in BODY_SELECTOR_CLASSES},
         LAMBDA selected : IF selected # {} THEN selected ELSE 1..Len(p.blocks))

\* the candidates that are not passed over
Scored(p) == {i \in CandidatesOf(p) : ~Excluded(p.blocks[i])}

\* the first candidate of the highest score
BestCandidate(p) ==
    Min({i \in Scored(p) : \A j \in Scored(p) : Score(p.blocks[j]) <= Score(p.blocks[i])})

\* the result for the whole document
WholeDocument == 0

LocateReturned(i) == [kind |-> "returned", root |-> i]

LocatorBlocks ==
    {Block("article", <<>>, 1, <<>>, <<>>),
     Block("article", <<"s","t","o","r","y">>, 4, <<>>, <<>>),
     Block("div", <<"p","o","s","t","-","c","o","n","t","e","n","t">>, 3,
           <<Img(<<"h","t","t","p","s",":","/","/","b",".","c","o","/","i","/","a",".","j","p","g">>, None, None, None, TRUE),
             Img(<<"h","t","t","p","s",":","/","/","b",".","c","o","/","i","/","z",".","j","p","g">>, None, None, None, TRUE)>>, <<>>),
     Block("div", <<"a","r","t","i","c","l","e","-","b","o","d","y">>, 2, <<>>, <<>>),
     Block("div", <<"p","o","s","t","-","b","o","d","y">>, 5, <<>>, <<>>),
     Block("div", <<"s","i","n","g","l","e","-","c","o","n","t","e","n","t">>, 0, <<>>, <<>>),
     Block("div", <<"s","i","d","e","b","a","r">>, 6, <<>>, <<>>),
     Block("nav", <<"m","e","n","u">>, 7, <<>>, <<>>)}

\* the largest number of blocks of a tree
MaxBlocks == 2

LocatorInputs ==
    {[EmptyPage(OtherBase) EXCEPT !.blocks = blocks] :
        blocks \in SeqsUpTo(LocatorBlocks, MaxBlocks)}

InitLocate ==
    /\ body \in LocatorInputs
    /\ collected = Idle
    /\ located = [kind |-> "pending"]
    /\ NoImageCall
    /\ NoExtractCall
    /\ NoRepeatCall
    /\ NoSanitizerCall
    /\ NoSoupPass
    /\ NoUploadCall
    /\ NoPipeline
    /\ NoPoolCall
    /\ NoRewriteCall

\* a call of _find_article_body(soup) that returns
LocateReturns ==
    /\ located.kind = "pending"
    /\ ~_find_article_body(body).raise
    /\ located' = LocateReturned(_find_article_body(body).root)
    /\ UNCHANGED <<ai, pool, feeds, seen_articles, posts, wp_created, failures, turns, txn, procs, wp, soup_pass, soup_in, soup_out, san_pass, san_texts, trees, call_urls, calls, img, url, valid, body, collected, doc, pc, meta, container, site_tries, result>>

\* a call of _find_article_body(soup) that raises
LocateRaises ==
    /\ located.kind = "pending"
    /\ _find_article_body(body).raise
    /\ located' = [kind |-> "raised"]
    /\ UNCHANGED <<ai, pool, feeds, seen_articles, posts, wp_created, failures, turns, txn, procs, wp, soup_pass, soup_in, soup_out, san_pass, san_texts, trees, call_urls, calls, img, url, valid, body, collected, doc, pc, meta, container, site_tries, result>>

NextLocate == LocateReturns \/ LocateRaises

SpecLocate == InitLocate /\ [][NextLocate]_vars

\* the tree holds no <article>, so that the candidates are scored
ScoresCandidates == located.kind # "pending" /\ ArticleBlocks(body) = {}

\* C16: when the body locator scores candidates it returns the first
\* non-excluded candidate of the highest score (<p> plus <figure>
\* descendants); a candidate whose class or id matches the non-content
\* pattern, or whose tag is header, footer, nav or aside, is never returned.
C16_HighestScoreWins ==
    (ScoresCandidates /\ Scored(body) # {}) =>
        located = LocateReturned(BestCandidate(body))

\* what the locator is stated to return when it does not take a single
\* <article>: the best candidate if it scores above 0, else the document
ScoredBody(p) ==
    IF Scored(p) # {} /\ Score(p.blocks[BestCandidate(p)]) > 0
    THEN LocateReturned(BestCandidate(p))
    ELSE LocateReturned(WholeDocument)

\* C17: the locator returns the <article> directly only when the tree holds
\* exactly one <article>; with two or more, or none, it returns what the
\* scoring of the candidates gives.
C17_SingleArticleOnly ==
    located.kind # "pending" =>
        IF Cardinality(ArticleBlocks(body)) = 1
        THEN located = LocateReturned(Min(ArticleBlocks(body)))
        ELSE located = ScoredBody(body)

\* C18: when no non-excluded candidate scores above 0 the locator returns
\* the whole document, not one of the zero-scoring candidates.
C18_WholeDocumentLastResort ==
    (/\ ScoresCandidates
     /\ \A i \in Scored(body) : Score(body.blocks[i]) = 0) =>
        located = LocateReturned(WholeDocument)

(***************************************************************************)
(* The order of the sources of title and excerpt                           *)
(***************************************************************************)

\* the Article object of the document, as the generic path finds it
ArticleObject(p) == _find_news_article_in_json_ld(_extract_json_ld(p.lds))

\* the first of the values that is a non-empty text, None when there is none
FirstNonEmpty(values) ==
    Bind({i \in 1..Len(values) : ~Falsy(values[i])}, LAMBDA supplied :
        IF supplied = {} THEN None ELSE values[Min(supplied)])

\* the headline of the Article object when it is a string
StructuredTitle(p) ==
    IF ArticleObject(p) # NoSchema /\ ArticleObject(p).headline.k = "string"
    THEN ArticleObject(p).headline.s ELSE None

StructuredExcerpt(p) ==
    IF ArticleObject(p) # NoSchema THEN ArticleObject(p).description ELSE None

\* structured metadata, then Open Graph, then <title> / meta description
TitleInOrder(p) == FirstNonEmpty(<<StructuredTitle(p), p.og_title, p.title>>)

ExcerptInOrder(p) == FirstNonEmpty(<<StructuredExcerpt(p), p.og_desc, p.desc>>)

\* C19: title and excerpt are each taken from the first of structured
\* metadata, Open-Graph meta tag and plain <title> / meta description that
\* supplies a non-empty value.
C19_MetadataFallbackOrder ==
    Returns =>
        /\ TitleInOrder(doc) # None => result.title = Strip(TitleInOrder(doc))
        /\ ExcerptInOrder(doc) # None => result.excerpt = Strip(ExcerptInOrder(doc))

(***************************************************************************)
(* Structured metadata with a trailing comma                               *)
(***************************************************************************)

\* the script blocks that hold JSON, counting a trailing comma as no fault
Readable(s) == s.text \in {"valid", "trailing_comma"} /\ s.shape \in {"object", "graph", "list"}

\* the first Article object of the document, as it is written in its block
WrittenArticle(p) ==
    Bind({i \in 1..Len(p.lds) : Readable(p.lds[i]) /\ p.lds[i].obj.type \in ARTICLE_TYPES},
         LAMBDA hits : IF hits = {} THEN NoSchema ELSE p.lds[Min(hits)].obj)

\* the first script block is an object that holds an image
FirstBlockHoldsImage(p) ==
    /\ p.lds # <<>>
    /\ p.lds[1].text \in {"valid", "trailing_comma"}
    /\ p.lds[1].shape = "object"
    /\ p.lds[1].obj.image.k # "absent"
    /\ p.lds[1].obj.image.url # <<>>

\* C20: a structured-metadata block with a trailing comma parses wherever
\* structured metadata is read: its Article object is the one selected for
\* title and excerpt, its image is the featured image when no og:image is
\* given, and a well-formed block is read as it is written.
C20_TrailingCommaRepaired ==
    (Returns /\ OnGenericPath) =>
        /\ result.schema_original = WrittenArticle(doc)
        /\ (~CarriesOgImage(doc) /\ FirstBlockHoldsImage(doc))
              => result.featured_image_url = urljoin(doc.base, doc.lds[1].obj.image.url)

(***************************************************************************)
(* The generic path on a document without <article>                        *)
(***************************************************************************)

\* some block of the document holds a paragraph
HasParagraphText(p) == \E i \in 1..Len(p.blocks) : p.blocks[i].ps > 0

\* C21: for a document with no <article> and a host with no site rule,
\* extract takes the generic path and returns a record with non-empty content
\* whenever the document holds paragraph text (here: and the body-to-HTML
\* step yields content).
C21_GenericPathReturnsContent ==
    (/\ pc = "done"
     /\ ~IsLance(doc) /\ ~IsGe(doc)
     /\ ArticleBlocks(doc) = {}
     /\ HasParagraphText(doc)
     /\ doc.traf # <<>>)
        => (OnGenericPath /\ result.kind = "record" /\ result.content.html # <<>>)

(***************************************************************************)
(* WordPressClient.upload_media_from_url (src/app/wordpress.py, lines      *)
(* 199-234).  A call makes up to max_attempts attempts; an attempt is a    *)
(* download request followed by an upload request.  What the two servers   *)
(* answer is the input of the model: each request succeeds or raises one   *)
(* of the errors below.                                                    *)
(***************************************************************************)
MaxAttempts == 3

\* requests.Timeout and requests.ConnectionError (line 224)
NETWORK_ERRORS == {"Timeout", "ConnectionError"}

\* what else a request, raise_for_status() or json() raises (line 228)
OTHER_ERRORS == {"HTTPError", "ValueError"}

\* the errors after which the loop goes on (where requests failing in any
\* way are retried, the loop goes on after every error)
EveryError(e) == e \in NETWORK_ERRORS \cup OTHER_ERRORS

\* line 224: except (requests.Timeout, requests.ConnectionError)
Retriable(e) == e \in NETWORK_ERRORS

\* the state of a call: the attempt of the loop, the request that is next,
\* the requests sent, the errors caught, the seconds slept and the result
UploadCall(max) ==
    [max |-> max, attempt |-> 1, at |-> "download", gets |-> 0, posts |-> 0,
     errors |-> <<>>, slept |-> 0, result |-> "pending"]

\* lines 224-234: the except clauses and what follows the loop
Caught(w, e) ==
    Bind([w EXCEPT !.errors = Append(@, e)], LAMBDA c :
        IF ~Retriable(e)
        THEN [c EXCEPT !.at = "returned", !.result = "None"]
        ELSE IF c.attempt < c.max
        THEN [c EXCEPT !.slept = @ + 2 * c.attempt, !.attempt = @ + 1, !.at = "download"]
        ELSE [c EXCEPT !.slept = @ + 2 * c.attempt, !.at = "returned", !.result = "None"])

InitUpload ==
    /\ wp \in {UploadCall(max) : max \in 1..MaxAttempts}
    /\ NoImageCall
    /\ NoCollectCall
    /\ NoExtractCall
    /\ NoRepeatCall
    /\ NoSanitizerCall
    /\ NoSoupPass
    /\ NoLocateCall
    /\ NoPipeline
    /\ NoPoolCall
    /\ NoRewriteCall

\* lines 207-208: requests.get and raise_for_status succeed
DownloadSucceeds ==
    /\ wp.at = "download"
    /\ wp' = [wp EXCEPT !.gets = @ + 1, !.at = "upload"]
    /\ UNCHANGED <<ai, pool, feeds, seen_articles, posts, wp_created, failures, turns, txn, procs, located, soup_pass, soup_in, soup_out, san_pass, san_texts, trees, call_urls, calls, img, url, valid, body, collected, doc, pc, meta, container, site_tries, result>>

\* lines 207-208 raise
DownloadRaises ==
    /\ wp.at = "download"
    /\ \E e \in NETWORK_ERRORS \cup {"HTTPError"} :
          wp' = Caught([wp EXCEPT !.gets = @ + 1], e)
    /\ UNCHANGED <<ai, pool, feeds, seen_articles, posts, wp_created, failures, turns, txn, procs, located, soup_pass, soup_in, soup_out, san_pass, san_texts, trees, call_urls, calls, img, url, valid, body, collected, doc, pc, meta, container, site_tries, result>>

\* lines 219-222: the upload succeeds and its JSON is returned
UploadSucceeds ==
    /\ wp.at = "upload"
    /\ wp' = [wp EXCEPT !.posts = @ + 1, !.at = "returned", !.result = "record"]
    /\ UNCHANGED <<ai, pool, feeds, seen_articles, posts, wp_created, failures, turns, txn, procs, located, soup_pass, soup_in, soup_out, san_pass, san_texts, trees, call_urls, calls, img, url, valid, body, collected, doc, pc, meta, container, site_tries, result>>

\* lines 219-222 raise (the request, raise_for_status or json())
UploadRaises ==
    /\ wp.at = "upload"
    /\ \E e \in NETWORK_ERRORS \cup OTHER_ERRORS :
          wp' = Caught([wp EXCEPT !.posts = @ + 1], e)
    /\ UNCHANGED <<ai, pool, feeds, seen_articles, posts, wp_created, failures, turns, txn, procs, located, soup_pass, soup_in, soup_out, san_pass, san_texts, trees, call_urls, calls, img, url, valid, body, collected, doc, pc, meta, container, site_tries, result>>

NextUpload == DownloadSucceeds \/ DownloadRaises \/ UploadSucceeds \/ UploadRaises

SpecUpload == InitUpload /\ [][NextUpload]_vars

\* the attempts started so far
Attempts == wp.gets

\* C22: upload_media_from_url with max_attempts >= 1 makes at most
\* max_attempts attempts, goes on only after a timeout or connection error,
\* stops at the first other error, sends one download and one upload request
\* when the first attempt succeeds, and returns the media record or None.
C22_BoundedRetries ==
    /\ Attempts <= wp.max /\ wp.posts <= wp.gets /\ wp.attempt <= wp.max
    \* every attempt but the last one ended in a network error
    /\ \A i \in 1..Len(wp.errors) :
          wp.errors[i] \in NETWORK_ERRORS \/ (i = Len(wp.errors) /\ wp.at = "returned")
    /\ Attempts - Len(wp.errors) \in {0, 1}
    /\ wp.at = "returned" =>
          /\ wp.result \in {"record", "None"}
          /\ wp.result = "record" <=> Len(wp.errors) = Attempts - 1
          /\ (wp.result = "record" /\ wp.errors = <<>>) => (wp.gets = 1 /\ wp.posts = 1)
          /\ (wp.result = "None" /\ wp.errors[Len(wp.errors)] \in NETWORK_ERRORS)
                => Attempts = wp.max
    /\ wp.at # "returned" => wp.result = "pending"

\* a call that returned the record on its second attempt, after a network error
C22_Witness ==
    /\ wp.at = "returned" /\ wp.result = "record"
    /\ wp.gets = 2 /\ wp.posts = 1 /\ Len(wp.errors) = 1

(***************************************************************************)
(* The pipeline: run_pipeline_cycle (src/app/pipeline.py, lines 95-393)    *)
(* over the SQLite database of src/app/store.py.  A process runs cycles;   *)
(* a cycle gives every feed of PIPELINE_ORDER its turn.  The feeds, the    *)
(* pages and the services answer as they like: what a feed lists, whether  *)
(* reading it raises and how the processing of an article ends are chosen  *)
(* by the environment.  Every feed has an entry in RSS_FEEDS.              *)
(*                                                                         *)
(* The database is one file shared by the processes.  A write transaction  *)
(* is opened by the first INSERT of filter_new_articles and closed by its  *)
(* commit or rollback; while it is open no other connection can write, and *)
(* its rows are visible to its owner only.                                 *)
(***************************************************************************)
NFeeds == 1

NItems == 2

NProcs == 2

\* SCHEDULE_CONFIG['max_articles_per_feed'], 3 unless the environment sets it
MaxPerFeed == 1

\* PIPELINE_ORDER, by position
Feeds == 1..NFeeds

\* a row of seen_articles (lines 51-64 of store.py); its id is its position
Row(src, ext, status, reason) ==
    [src |-> src, ext |-> ext, status |-> status, reason |-> reason]

NULL == "NULL"

\* the locals of run_pipeline_cycle between two cycles
BetweenCycles == [pc |-> "idle", i |-> 0, items |-> <<>>, k |-> 0, new |-> <<>>, a |-> 0]

\* what read_feeds returns for a feed that lists its n newest items: newest first
Listed(n) == [j \in 1..n |-> n + 1 - j]

\* the process whose write transaction is open, 0 for none
\* the rows process p sees: the committed rows and those of its transaction
TxnOwner == IF txn = Idle THEN 0 ELSE txn.owner

OwnRows(p) == IF TxnOwner = p THEN txn.rows ELSE <<>>

Visible(p) == seen_articles \o OwnRows(p)

\* SELECT id FROM seen_articles WHERE source_id = ? AND external_id = ?
Found(rows, src, ext) == \E r \in 1..Len(rows) : rows[r].src = src /\ rows[r].ext = ext

\* no table constraint (a schema without UNIQUE)
Unconstrained(rows, src, ext) == FALSE

\* UNIQUE(source_id, external_id) (line 63 of store.py) rejects the INSERT
UniqueViolated(rows, src, ext) == Found(rows, src, ext)

\* update_article_status (lines 254-272 of store.py) for a status other
\* than DEFERRED: the reason is written only when it is not empty
update_article_status(rows, id, status, reason) ==
    IF reason # ""
    THEN [rows EXCEPT ![id].status = status, ![id].reason = reason]
    ELSE [rows EXCEPT ![id].status = status]

\* save_processed_post (lines 179-200 of store.py): the UPDATE
MarkPublished(rows, id) ==
    [rows EXCEPT ![id].status = "PUBLISHED", ![id].reason = NULL]

\* how the last turn of feed f ended; a skip that follows a skip is told apart
Ended(f, how) ==
    [turns EXCEPT ![f] = IF how = "skipped" /\ @ \in {"skipped", "skipped again"}
                         THEN "skipped again" ELSE how]

\* lines 120 and 382-387: on to the next feed, or the cycle is over
NextFeed(w) ==
    IF w.i < NFeeds
    THEN [BetweenCycles EXCEPT !.pc = "turn", !.i = w.i + 1]
    ELSE BetweenCycles

\* the process set and the initial database (after Database.initialize)
InitDatabase(P) ==
    /\ feeds \in [Feeds -> 0..NItems]
    /\ seen_articles = <<>>
    /\ posts = {}
    /\ wp_created = <<>>
    /\ failures = [f \in Feeds |-> 0]
    /\ turns = [f \in Feeds |-> "none"]
    /\ txn = Idle
    /\ procs = [p \in P |-> BetweenCycles]
    /\ NoImageCall
    /\ NoCollectCall
    /\ NoExtractCall
    /\ NoRepeatCall
    /\ NoSanitizerCall
    /\ NoSoupPass
    /\ NoLocateCall
    /\ NoUploadCall
    /\ NoPoolCall
    /\ NoRewriteCall

\* the scheduler of main.py alone
InitCycle == InitDatabase({1})

\* the scheduler and a second process started by hand
InitConcurrent == InitDatabase(1..NProcs)

Others == <<wp, located, soup_pass, soup_in, soup_out, san_pass, san_texts, trees, call_urls, calls, img, url, valid, body, collected, doc, pc, meta, container, site_tries, result>>

\* the source of feed f publishes an article, which its feed then lists
FeedLists ==
    /\ \E f \in Feeds :
          /\ feeds[f] < NItems
          /\ feeds' = [feeds EXCEPT ![f] = @ + 1]
    /\ UNCHANGED <<ai, pool, seen_articles, posts, wp_created, failures, turns, txn, procs>>
    /\ UNCHANGED Others

\* main.py, lines 51 and 64: a cycle starts (line 120, the first feed)
StartCycle ==
    \E p \in DOMAIN procs :
        /\ procs[p].pc = "idle"
        /\ procs' = [procs EXCEPT ![p] = [BetweenCycles EXCEPT !.pc = "turn", !.i = 1]]
        /\ UNCHANGED <<ai, pool, feeds, seen_articles, posts, wp_created, failures, turns, txn>>
        /\ UNCHANGED Others

\* a circuit that opens one failure late
CircuitOpenLate(count) == count >= 4

\* line 123: consecutive_failures >= 3
CircuitOpen(count) == count >= 3

\* lines 121-127: the circuit is open, the feed is skipped and its count reset
SkipFeed ==
    \E p \in DOMAIN procs :
        /\ procs[p].pc = "turn"
        /\ txn = Idle
        /\ CircuitOpen(failures[procs[p].i])
        /\ failures' = [failures EXCEPT ![procs[p].i] = 0]
        /\ turns' = Ended(procs[p].i, "skipped")
        /\ procs' = [procs EXCEPT ![p] = NextFeed(@)]
        /\ UNCHANGED <<ai, pool, feeds, seen_articles, posts, wp_created, txn>>
        /\ UNCHANGED Others

\* lines 138 and 378-380: reading the feed raises, the count goes up by one
ReadFeedRaises ==
    \E p \in DOMAIN procs :
        /\ procs[p].pc = "turn"
        /\ txn = Idle
        /\ ~CircuitOpen(failures[procs[p].i])
        /\ failures' = [failures EXCEPT ![procs[p].i] = @ + 1]
        /\ turns' = Ended(procs[p].i, "failed")
        /\ procs' = [procs EXCEPT ![p] = NextFeed(@)]
        /\ UNCHANGED <<ai, pool, feeds, seen_articles, posts, wp_created, txn>>
        /\ UNCHANGED Others

\* line 138: read_feeds returns the items the feed lists; line 139 calls
\* filter_new_articles, which starts with the first item
ReadFeed ==
    \E p \in DOMAIN procs :
        /\ procs[p].pc = "turn"
        /\ ~CircuitOpen(failures[procs[p].i])
        /\ procs' = [procs EXCEPT ![p] = [@ EXCEPT !.pc = "select",
                                                  !.items = Listed(feeds[procs[p].i]),
                                                  !.k = 1]]
        /\ UNCHANGED <<ai, pool, feeds, seen_articles, posts, wp_created, failures, turns, txn>>
        /\ UNCHANGED Others

\* lines 141-143: filter_new_articles returned no article: continue
NoNewArticles(w) == NextFeed(w)

\* store.py, lines 158-159: the SELECT for item k
FilterSelect ==
    \E p \in DOMAIN procs :
        /\ procs[p].pc = "select"
        /\ procs[p].k <= Len(procs[p].items)
        /\ procs' = [procs EXCEPT ![p] =
                        IF Found(Visible(p), procs[p].i, procs[p].items[procs[p].k])
                        THEN [@ EXCEPT !.k = @ + 1]
                        ELSE [@ EXCEPT !.pc = "insert"]]
        /\ UNCHANGED <<ai, pool, feeds, seen_articles, posts, wp_created, failures, turns, txn>>
        /\ UNCHANGED Others

\* store.py, lines 161-166: the INSERT for item k, in the transaction it
\* opens or continues.  A key that was committed in the meantime makes it
\* raise IntegrityError: lines 168-171 roll back and return [].
FilterInsert ==
    \E p \in DOMAIN procs :
        /\ procs[p].pc = "insert"
        /\ TxnOwner \in {0, p}
        /\ IF UniqueViolated(Visible(p), procs[p].i, procs[p].items[procs[p].k])
           THEN /\ txn' = Idle
                /\ turns' = Ended(procs[p].i, "empty")
                /\ procs' = [procs EXCEPT ![p] = NoNewArticles(@)]
           ELSE /\ txn' = [kind |-> "open", owner |-> p,
                           rows |-> Append(OwnRows(p),
                                           Row(procs[p].i, procs[p].items[procs[p].k], "NEW", NULL))]
                /\ turns' = turns
                /\ procs' = [procs EXCEPT ![p] =
                                [@ EXCEPT !.pc = "select", !.k = @ + 1,
                                          !.new = Append(@, Len(Visible(p)) + 1)]]
        /\ UNCHANGED <<ai, pool, feeds, seen_articles, posts, wp_created, failures>>
        /\ UNCHANGED Others

\* store.py, lines 161 and 168-171: the INSERT waits for the transaction of
\* another connection for 10 s and raises OperationalError ("database is
\* locked"); filter_new_articles returns []
FilterLocked ==
    \E p \in DOMAIN procs :
        /\ procs[p].pc = "insert"
        /\ TxnOwner \notin {0, p}
        /\ turns' = Ended(procs[p].i, "empty")
        /\ procs' = [procs EXCEPT ![p] = NoNewArticles(@)]
        /\ UNCHANGED <<ai, pool, feeds, seen_articles, posts, wp_created, failures, txn>>
        /\ UNCHANGED Others

\* store.py, line 167: the loop is over, commit; pipeline.py, lines 141-147
FilterCommit ==
    \E p \in DOMAIN procs :
        /\ procs[p].pc = "select"
        /\ procs[p].k > Len(procs[p].items)
        /\ seen_articles' = Visible(p)
        /\ txn' = IF TxnOwner = p THEN Idle ELSE txn
        /\ IF procs[p].new = <<>>
           THEN /\ turns' = Ended(procs[p].i, "empty")
                /\ procs' = [procs EXCEPT ![p] = NoNewArticles(@)]
           ELSE /\ turns' = turns
                /\ procs' = [procs EXCEPT ![p] = [@ EXCEPT !.pc = "article", !.a = 1]]
        /\ UNCHANGED <<ai, pool, feeds, posts, wp_created, failures>>
        /\ UNCHANGED Others

\* line 147: new_articles[:max_articles_per_feed]
Taken(w) == IF Len(w.new) < MaxPerFeed THEN Len(w.new) ELSE MaxPerFeed

\* the reasons update_article_status is given after the article was set to
\* PROCESSING: a literal (lines 163, 180, 213 and 367; that of line 163
\* stands for the four), the reason of the rewriter (line 204) or str(e)
\* (line 373), which can be the empty string
FAIL_REASONS == {"Failed to fetch HTML", ""}

\* lines 150-154: the item has no usable URL; it fails without being processed
ArticleWithoutURL ==
    \E p \in DOMAIN procs :
        /\ procs[p].pc = "article"
        /\ procs[p].a <= Taken(procs[p])
        /\ txn = Idle
        /\ seen_articles' = update_article_status(seen_articles, procs[p].new[procs[p].a],
                                                  "FAILED", "Missing/invalid URL")
        /\ procs' = [procs EXCEPT ![p] = [@ EXCEPT !.a = @ + 1]]
        /\ UNCHANGED <<ai, pool, feeds, posts, wp_created, failures, turns, txn>>
        /\ UNCHANGED Others

\* line 157: the article is set to PROCESSING
ArticleStarts ==
    \E p \in DOMAIN procs :
        /\ procs[p].pc = "article"
        /\ procs[p].a <= Taken(procs[p])
        /\ txn = Idle
        /\ seen_articles' = update_article_status(seen_articles, procs[p].new[procs[p].a],
                                                  "PROCESSING", "")
        /\ procs' = [procs EXCEPT ![p] = [@ EXCEPT !.pc = "processing"]]
        /\ UNCHANGED <<ai, pool, feeds, posts, wp_created, failures, turns, txn>>
        /\ UNCHANGED Others

\* lines 159-213 and 361-373: a step fails or raises; the article is set to
\* FAILED with the reason of that step
ArticleFails ==
    \E p \in DOMAIN procs :
        /\ procs[p].pc = "processing"
        /\ txn = Idle
        /\ \E reason \in FAIL_REASONS :
              seen_articles' = update_article_status(seen_articles, procs[p].new[procs[p].a],
                                                     "FAILED", reason)
        /\ procs' = [procs EXCEPT ![p] = [@ EXCEPT !.pc = "article", !.a = @ + 1]]
        /\ UNCHANGED <<ai, pool, feeds, posts, wp_created, failures, turns, txn>>
        /\ UNCHANGED Others

\* lines 356-361: create_post returns the id of the post it created on the
\* site; save_processed_post records it
ArticlePublished ==
    \E p \in DOMAIN procs :
        /\ procs[p].pc = "processing"
        /\ txn = Idle
        /\ wp_created' = Append(wp_created,
                                [src |-> seen_articles[procs[p].new[procs[p].a]].src,
                                 ext |-> seen_articles[procs[p].new[procs[p].a]].ext])
        /\ seen_articles' = MarkPublished(seen_articles, procs[p].new[procs[p].a])
        /\ posts' = posts \cup {[seen_article_id |-> procs[p].new[procs[p].a],
                                 wp_post_id |-> Len(wp_created) + 1]}
        /\ procs' = [procs EXCEPT ![p] = [@ EXCEPT !.pc = "article", !.a = @ + 1]]
        /\ UNCHANGED <<ai, pool, feeds, failures, turns, txn>>
        /\ UNCHANGED Others

\* lines 375-376: the loop over the articles is over, the count is reset
FeedDone ==
    \E p \in DOMAIN procs :
        /\ procs[p].pc = "article"
        /\ procs[p].a > Taken(procs[p])
        /\ txn = Idle
        /\ failures' = [failures EXCEPT ![procs[p].i] = 0]
        /\ turns' = Ended(procs[p].i, "read")
        /\ procs' = [procs EXCEPT ![p] = NextFeed(@)]
        /\ UNCHANGED <<ai, pool, feeds, seen_articles, posts, wp_created, txn>>
        /\ UNCHANGED Others

\* a step of a process of the single-process system
NextCycle ==
    \/ FeedLists \/ StartCycle \/ SkipFeed \/ ReadFeedRaises \/ ReadFeed
    \/ FilterSelect \/ FilterInsert \/ FilterCommit
    \/ ArticleWithoutURL \/ ArticleStarts \/ ArticleFails
    \/ ArticlePublished \/ FeedDone

NextConcurrent == NextCycle \/ FilterLocked

SpecCycle == InitCycle /\ [][NextCycle]_vars

SpecConcurrent == InitConcurrent /\ [][NextConcurrent]_vars

\* the posts created on the site for item ext of feed src
PostsFor(src, ext) == {n \in 1..Len(wp_created) : wp_created[n] = [src |-> src, ext |-> ext]}

\* the rows of seen_articles for item ext of feed src
RowsFor(src, ext) ==
    {r \in 1..Len(seen_articles) : seen_articles[r].src = src /\ seen_articles[r].ext = ext}

\* C23: across cycles, also of two processes on one database, at most one
\* WordPress post is created for a (source_id, external_id): only the call of
\* filter_new_articles that inserted the row hands the article on, and only
\* one insert of a key succeeds.
C23_OnePostPerArticle ==
    /\ \A src \in Feeds, ext \in 1..NItems :
          /\ Cardinality(PostsFor(src, ext)) <= 1
          /\ Cardinality(RowsFor(src, ext)) <= 1
    /\ \A p, q \in DOMAIN procs :
          p # q => \A m \in 1..Len(procs[p].new), n \in 1..Len(procs[q].new) :
                      procs[p].new[m] # procs[q].new[n]

\* a process is about to insert an item that the other process has inserted
\* and published since the SELECT
C23_Witness ==
    \E p \in DOMAIN procs :
        /\ procs[p].pc = "insert"
        /\ PostsFor(procs[p].i, procs[p].items[procs[p].k]) # {}

\* cycles keep running (the scheduler of main.py starts one every interval),
\* every started statement is carried out, and every feed is read without
\* error again and again
CyclesKeepRunning ==
    /\ WF_vars(StartCycle) /\ WF_vars(SkipFeed) /\ SF_vars(ReadFeed)
    /\ WF_vars(FilterSelect) /\ WF_vars(FilterInsert) /\ WF_vars(FilterCommit)
    /\ WF_vars(ArticleWithoutURL \/ ArticleStarts)
    /\ WF_vars(ArticleFails \/ ArticlePublished)
    /\ WF_vars(FeedDone)

SpecCycleFair == SpecCycle /\ CyclesKeepRunning

\* row r of seen_articles has one of the given statuses
HasStatus(r, statuses) == Len(seen_articles) >= r /\ seen_articles[r].status \in statuses

\* C24: every article recorded with status NEW is eventually processed, that
\* is, reaches PUBLISHED or FAILED, also when more than max_articles_per_feed
\* new articles were found in the cycle that first saw it.
C24_NewEventuallyProcessed ==
    \A r \in 1..(NFeeds * NItems) :
        HasStatus(r, {"NEW"}) ~> HasStatus(r, {"PUBLISHED", "FAILED"})

\* the article of row r is the one a process is working on (lines 157-373)
InProcess(r) ==
    \E p \in DOMAIN procs : procs[p].pc = "processing" /\ procs[p].new[procs[p].a] = r

\* the rows of posts for the article of row r
PostRows(r) == {post \in posts : post.seen_article_id = r}

\* C25: no article is left in status PROCESSING when the cycle moves on to
\* the next article: it is PUBLISHED, exactly when create_post returned a
\* post id and with one row in posts, or FAILED with a reason, whichever
\* step failed.
C25_NoArticleLeftProcessing ==
    \A r \in 1..Len(seen_articles) :
        /\ seen_articles[r].status = "PROCESSING" => InProcess(r)
        /\ seen_articles[r].status = "PUBLISHED"
              <=> PostsFor(seen_articles[r].src, seen_articles[r].ext) # {}
        /\ seen_articles[r].status = "PUBLISHED" <=> Cardinality(PostRows(r)) = 1
        /\ PostRows(r) = {} \/ seen_articles[r].status = "PUBLISHED"
        /\ seen_articles[r].status = "FAILED" => seen_articles[r].reason # NULL

\* C26: a feed is skipped exactly when its count of consecutive failures is
\* 3 or more at its turn, and the skip sets the count to 0; with one process
\* the count stays within 0..3 and no feed is skipped in two successive
\* cycles.
C26_CircuitBreaker ==
    /\ [](\A f \in Feeds : failures[f] \in 0..3 /\ turns[f] # "skipped again")
    /\ [][\A p \in DOMAIN procs :
            (procs[p].pc = "turn" /\ procs'[p] # procs[p])
                => /\ failures[procs[p].i] >= 3 <=> SkipFeed
                   /\ SkipFeed => failures'[procs[p].i] = 0]_vars

\* the feed was skipped in the cycle before and has its turn again
C26_Witness ==
    \E p \in DOMAIN procs :
        /\ procs[p].pc = "turn"
        /\ turns[procs[p].i] = "skipped"
        /\ failures[procs[p].i] = 0

\* C27: after a turn of a feed that completed without a feed-level
\* exception, also one in which the feed was read and had no new article, the
\* count of consecutive failures of the feed is 0.
C27_CountsOnlyUninterruptedFailures ==
    \A f \in Feeds : turns[f] \in {"read", "empty"} => failures[f] = 0

\* ---------------------------------------------------------------------
\* AIProcessor.rewrite_content (ai_processor.py): keys, retries, failover
\* ---------------------------------------------------------------------

\* the greatest number of API keys of the processors examined
MaxKeys == 3

\* line 110
MAX_RETRIES == 3

\* line 111, in seconds
BACKOFF_FACTOR == 60

\* what ai_client.generate_text and _parse_response can raise: the rate-limit
\* error of the API, or any other exception (a failed parse included, line 159)
AI_ERRORS == {"ResourceExhausted", "Exception"}

\* a handler that takes every error for a rate-limit error
AnyError(e) == e \in AI_ERRORS

\* line 169: except ResourceExhausted
IsRateLimit(e) == e = "ResourceExhausted"

\* lines 37-47: the processor after construction, with n keys
AIProcessor(n) ==
    [n |-> n, current_key_index |-> 0, pc |-> "ready", it |-> 0, retries |-> 0,
     tried |-> {}, attempts |-> 0, log |-> <<>>, waits |-> <<>>,
     outcome |-> "none", served |-> 0 - 1]

\* lines 49-57 and 188-189: _failover_to_next_key; False ends the loop over
\* the keys, and lines 191-193 report that all keys failed
_failover_to_next_key(w) ==
    IF w.current_key_index + 1 >= w.n
    THEN [w EXCEPT !.current_key_index = 0, !.pc = "returned", !.outcome = "all_failed"]
    ELSE [w EXCEPT !.current_key_index = @ + 1, !.pc = "key"]

\* the attempt on the current key is counted
Attempted(w, how) ==
    [w EXCEPT !.attempts = @ + 1, !.tried = @ \cup {w.current_key_index},
              !.log = Append(@, how)]

InitRewrite ==
    /\ ai \in {AIProcessor(n) : n \in 1..MaxKeys}
    /\ NoImageCall
    /\ NoCollectCall
    /\ NoExtractCall
    /\ NoRepeatCall
    /\ NoSanitizerCall
    /\ NoSoupPass
    /\ NoLocateCall
    /\ NoUploadCall
    /\ NoPipeline
    /\ NoPoolCall

\* lines 141-143: rewrite_content is called (again) on the same processor
CallRewrite ==
    /\ ai.pc \in {"ready", "returned"}
    /\ ai' = [AIProcessor(ai.n) EXCEPT !.current_key_index = ai.current_key_index,
                                       !.pc = "key"]
    /\ UNCHANGED <<pool, feeds, seen_articles, posts, wp_created, failures, turns, txn, procs>>
    /\ UNCHANGED Others

\* lines 144-148: the next iteration of the loop over the keys reads
\* api_keys[current_key_index] (IndexError if the index is not valid); after
\* len(api_keys) iterations the loop is over
NextKey ==
    /\ ai.pc = "key"
    /\ ai' = IF ai.it >= ai.n
             THEN [ai EXCEPT !.pc = "returned", !.outcome = "all_failed"]
             ELSE IF ai.current_key_index \notin 0..(ai.n - 1)
                  THEN [ai EXCEPT !.pc = "raised"]
                  ELSE [ai EXCEPT !.pc = "attempt", !.it = @ + 1, !.retries = 0,
                                  !.log = <<>>, !.waits = <<>>]
    /\ UNCHANGED <<pool, feeds, seen_articles, posts, wp_created, failures, turns, txn, procs>>
    /\ UNCHANGED Others

\* lines 154-167: the model answers with the rewritten article
AttemptSucceeds ==
    /\ ai.pc = "attempt"
    /\ ai' = [Attempted(ai, "data") EXCEPT !.pc = "returned", !.outcome = "data",
                                           !.served = ai.current_key_index]
    /\ UNCHANGED <<pool, feeds, seen_articles, posts, wp_created, failures, turns, txn, procs>>
    /\ UNCHANGED Others

\* lines 161-163: the model answers with an object that has the key 'erro'
AttemptHandledError ==
    /\ ai.pc = "attempt"
    /\ ai' = [Attempted(ai, "erro") EXCEPT !.pc = "returned", !.outcome = "erro",
                                           !.served = ai.current_key_index]
    /\ UNCHANGED <<pool, feeds, seen_articles, posts, wp_created, failures, turns, txn, procs>>
    /\ UNCHANGED Others

\* lines 169-178: a rate-limit error; the third one fails over, the others
\* wait BACKOFF_FACTOR * 2 ** (retries - 1) seconds and try the key again
RateLimited(w) ==
    IF w.retries + 1 >= MAX_RETRIES
    THEN _failover_to_next_key([w EXCEPT !.retries = @ + 1])
    ELSE [w EXCEPT !.retries = @ + 1,
                   !.waits = Append(@, BACKOFF_FACTOR * 2 ^ w.retries)]

\* lines 169-189: the attempt raises
AttemptRaises ==
    /\ ai.pc = "attempt"
    /\ \E e \in AI_ERRORS :
          ai' = IF IsRateLimit(e)
                THEN RateLimited(Attempted(ai, e))
                ELSE _failover_to_next_key(Attempted(ai, e))
    /\ UNCHANGED <<pool, feeds, seen_articles, posts, wp_created, failures, turns, txn, procs>>
    /\ UNCHANGED Others

NextRewrite ==
    \/ CallRewrite \/ NextKey \/ AttemptSucceeds \/ AttemptHandledError \/ AttemptRaises

SpecRewrite == InitRewrite /\ [][NextRewrite]_vars

\* every call of the model returns or raises, every wait ends
CallsReturn ==
    /\ WF_vars(NextKey)
    /\ WF_vars(AttemptSucceeds \/ AttemptHandledError \/ AttemptRaises)

SpecRewriteFair == SpecRewrite /\ CallsReturn

\* C28: rewrite_content reports that all available API keys failed only
\* after every key was attempted at least once in that call, whatever
\* current_key_index was when the call started; and current_key_index is a
\* valid index whenever a key is read.
C28_AllKeysTriedBeforeGivingUp ==
    /\ ai.outcome = "all_failed" => ai.tried = 0..(ai.n - 1)
    /\ ai.current_key_index \in 0..(ai.n - 1)
    /\ ai.pc # "raised"

\* the number of rate-limit errors among the attempts on the current key
RateLimits(log) == Cardinality({i \in 1..Len(log) : log[i] = "ResourceExhausted"})

\* C29: rewrite_content terminates after a bounded number of calls of the
\* model: at most MAX_RETRIES attempts on one key, a retry only after a
\* rate-limit error and a wait of 60 s, then 120 s, failover at once on any
\* other error, at most MAX_RETRIES * len(api_keys) attempts in all; an answer
\* (the article or 'erro') returns at once and leaves current_key_index as
\* it is.
C29_BoundedAttempts ==
    /\ [](/\ ai.attempts <= MAX_RETRIES * ai.n
          /\ Len(ai.log) <= MAX_RETRIES
          /\ \A i \in 1..(Len(ai.log) - 1) : ai.log[i] = "ResourceExhausted"
          /\ ai.waits = SubSeq(<<60, 120>>, 1, Min({RateLimits(ai.log), 2}))
          /\ ai.outcome \in {"data", "erro"}
                => ai.pc = "returned" /\ ai.current_key_index = ai.served)
    /\ (ai.pc \in {"key", "attempt"}) ~> (ai.pc = "returned")

\* every key was rate-limited three times: the call gave up after
\* MAX_RETRIES * len(api_keys) attempts
C29_Witness ==
    /\ ai.pc = "returned"
    /\ ai.n > 1
    /\ ai.attempts = MAX_RETRIES * ai.n

\* ---------------------------------------------------------------------
\* KeyPool (keys.py): rotation and cooldown of API keys
\* ---------------------------------------------------------------------

\* the keys that exist, and the longest key list of a pool
NKeys == 2
MaxPoolKeys == 2

\* the clock runs from 0 to MaxNow; a time unit stands for 60 seconds
MaxNow == 4

\* the greatest max_cooldown_seconds and base_cooldown_seconds examined,
\* and the failures reported for one key without a success between
MaxCooldown == 3
MaxBase == 2
MaxFailures == 3

\* cooldown_until = None
NoCooldown == 0 - 1

\* the key lists a pool is built with (the empty list and lists that name a
\* key twice included)
KeyLists == UNION {[1..n -> 1..NKeys] : n \in 0..MaxPoolKeys}

\* the keys of a list
KeysOf(list) == {list[i] : i \in 1..Len(list)}

\* lines 14-36: KeyPool(api_keys, max_cooldown_seconds) at time 0
KeyPool(list, max) ==
    [key_list |-> list,
     key_cycle |-> IF list = <<>> THEN 0 ELSE 1,
     key_status |-> [k \in KeysOf(list) |-> [cooldown_until |-> NoCooldown, failures |-> 0]],
     max_cooldown_seconds |-> max,
     now |-> 0,
     last |-> [op |-> "init", key |-> 0, base |-> 0, at |-> 0]]

\* line 53: cooldown_until and datetime.now() < cooldown_until
InCooldown(status, now) ==
    status.cooldown_until # NoCooldown /\ now < status.cooldown_until

\* next(self._key_cycle): the place of the cycle after the next key
Advance(w) == IF w.key_cycle >= Len(w.key_list) THEN 1 ELSE w.key_cycle + 1

\* lines 48-59: the loop of get_key with n iterations left; 0 stands for None
RECURSIVE get_key_loop(_, _)
get_key_loop(w, n) ==
    IF n = 0
    THEN [w EXCEPT !.last = [op |-> "get_key", key |-> 0, base |-> 0, at |-> w.now]]
    ELSE IF InCooldown(w.key_status[w.key_list[w.key_cycle]], w.now)
         THEN get_key_loop([w EXCEPT !.key_cycle = Advance(w)], n - 1)
         ELSE [w EXCEPT !.key_cycle = Advance(w),
                        !.last = [op |-> "get_key", key |-> w.key_list[w.key_cycle],
                                  base |-> 0, at |-> w.now]]

\* lines 38-59
get_key(w) ==
    IF w.key_cycle = 0
    THEN [w EXCEPT !.last = [op |-> "get_key", key |-> 0, base |-> 0, at |-> w.now]]
    ELSE get_key_loop(w, Len(w.key_list))

\* a cooldown that is not capped
UncappedCooldown(base, count, max) == base * 2 ^ (count - 1)

\* lines 69-70: min(base_cooldown_seconds * 2 ** (failures - 1), max_cooldown_seconds)
cooldown_duration(base, count, max) ==
    IF base * 2 ^ (count - 1) < max THEN base * 2 ^ (count - 1) ELSE max

\* lines 61-74
report_failure(w, key, base) ==
    IF key \notin DOMAIN w.key_status
    THEN w
    ELSE [w EXCEPT !.key_status[key] =
              [failures |-> @.failures + 1,
               cooldown_until |-> w.now + cooldown_duration(base, @.failures + 1,
                                                            w.max_cooldown_seconds)]]

\* lines 76-83
report_success(w, key) ==
    IF key \in DOMAIN w.key_status /\ w.key_status[key].failures > 0
    THEN [w EXCEPT !.key_status[key] = [failures |-> 0, cooldown_until |-> NoCooldown]]
    ELSE w

InitKeyPool ==
    /\ pool \in {KeyPool(list, max) : list \in KeyLists, max \in 2..MaxCooldown}
    /\ NoImageCall
    /\ NoCollectCall
    /\ NoExtractCall
    /\ NoRepeatCall
    /\ NoSanitizerCall
    /\ NoSoupPass
    /\ NoLocateCall
    /\ NoUploadCall
    /\ NoPipeline
    /\ NoRewriteCall

\* time passes
Tick ==
    /\ pool.now < MaxNow
    /\ pool' = [pool EXCEPT !.now = @ + 1]
    /\ UNCHANGED <<ai, feeds, seen_articles, posts, wp_created, failures, turns, txn, procs>>
    /\ UNCHANGED Others

GetKey ==
    /\ pool' = get_key(pool)
    /\ UNCHANGED <<ai, feeds, seen_articles, posts, wp_created, failures, turns, txn, procs>>
    /\ UNCHANGED Others

ReportFailure ==
    /\ \E key \in 1..NKeys, base \in 1..MaxBase :
          /\ key \in DOMAIN pool.key_status => pool.key_status[key].failures < MaxFailures
          /\ pool' = [report_failure(pool, key, base) EXCEPT
                         !.last = [op |-> "report_failure", key |-> key,
                                   base |-> base, at |-> pool.now]]
    /\ UNCHANGED <<ai, feeds, seen_articles, posts, wp_created, failures, turns, txn, procs>>
    /\ UNCHANGED Others

ReportSuccess ==
    /\ \E key \in 1..NKeys :
          pool' = [report_success(pool, key) EXCEPT
                      !.last = [op |-> "report_success", key |-> key,
                                base |-> 0, at |-> pool.now]]
    /\ UNCHANGED <<ai, feeds, seen_articles, posts, wp_created, failures, turns, txn, procs>>
    /\ UNCHANGED Others

NextKeyPool == Tick \/ GetKey \/ ReportFailure \/ ReportSuccess

SpecKeyPool == InitKeyPool /\ [][NextKeyPool]_vars

\* key k of the pool was in cooldown when the last call was made
CoolingAtLastCall(k) ==
    /\ pool.key_status[k].cooldown_until # NoCooldown
    /\ pool.last.at < pool.key_status[k].cooldown_until

\* C30: get_key never returns a key whose cooldown has not expired, and
\* returns None only when every key is in cooldown or the pool is empty;
\* report_failure sets a cooldown of min(base * 2^(failures-1),
\* max_cooldown_seconds); report_success clears the failure count and the
\* cooldown of the key; a key has a cooldown only while its failure count is
\* above 0.
C30_KeyPoolCooldown ==
    /\ (pool.last.op = "get_key" /\ pool.last.key # 0)
          => pool.last.key \in DOMAIN pool.key_status /\ ~CoolingAtLastCall(pool.last.key)
    /\ (pool.last.op = "get_key" /\ pool.last.key = 0)
          => \A k \in DOMAIN pool.key_status : CoolingAtLastCall(k)
    /\ (pool.last.op = "report_failure" /\ pool.last.key \in DOMAIN pool.key_status)
          => pool.key_status[pool.last.key].cooldown_until
                = pool.last.at + Min({pool.last.base * 2 ^ (pool.key_status[pool.last.key].failures - 1),
                                      pool.max_cooldown_seconds})
    /\ (pool.last.op = "report_success" /\ pool.last.key \in DOMAIN pool.key_status)
          => pool.key_status[pool.last.key] = [failures |-> 0, cooldown_until |-> NoCooldown]
    /\ \A k \in DOMAIN pool.key_status :
          pool.key_status[k].cooldown_until # NoCooldown => pool.key_status[k].failures > 0

\* get_key passed over a key in cooldown and returned another key
C30_Witness ==
    /\ pool.last.op = "get_key"
    /\ pool.last.key # 0
    /\ \E k \in DOMAIN pool.key_status : CoolingAtLastCall(k)
====
